---- MODULE Spec2Model ----
(***************************************************************************)
(* Relay engine of zakrepbot: the Idle/Running state machine of src/bot.py *)
(* with its background rotation task, the publish-and-replace operation    *)
(* (BotContext.forward_and_pin_message) and the admin / channel handlers   *)
(* that run beside it on one asyncio event loop.                           *)
(*                                                                         *)
(* Every coroutine (rotation task or handler invocation) is a process with *)
(* a program counter.  A process standing at pc = L is suspended at the    *)
(* await named L; one action performs that awaited call and runs the code  *)
(* that follows it up to the next await, which is the atomicity asyncio    *)
(* gives.  Awaits that only talk to the admin UI (edit_text, answer,       *)
(* _notify_admins) touch no engine state and are folded into the step      *)
(* that precedes them.                                                     *)
(***************************************************************************)
EXTENDS Integers, Sequences, FiniteSets, TLC

\* ---------------------------------------------------------------- bounds
MaxStarts == 2       \* toggle_forwarding invocations in flight at the same time
MaxHandlers == 1     \* other handler invocations in flight at the same time
MaxTasks == 2        \* rotation tasks ever created
MaxStates == 2       \* RunningState objects ever created
MaxMsg == 2          \* messages forwarded into one chat
MaxPost == 2         \* highest message id posted in a source channel
MaxFaults == 1       \* failures injected into transport / store calls
MaxCallers == 6      \* get_connection calls under way at the same time
MaxDay == 2          \* calendar days the clock goes through
MaxLate == 3         \* highest message id posted beside the schedule task

\* ------------------------------------------------------ program constants
DefaultInterval == 7200   \* Repository.get_config("rotation_interval", "7200")
Backoff == 10             \* asyncio.sleep(10) before the restart attempt
TickStep == 900           \* granularity of the clock between deadlines
SearchAhead == 50         \* find_latest_message: start_id = last_saved_id + 50
SearchFrom == 1000        \* find_latest_message: start_id without a saved id
MaxCheck == 200           \* find_latest_message: max_check
ProbeFrom == 10000        \* ForwarderBot.find_latest_message: max_id
ProbeSpan == 5000         \* ForwarderBot.find_latest_message: max_id - test_id > 5000
MinMinutes == 5           \* set_interval_submit: if minutes < 5
MaxMinutes == 1440        \* set_interval_submit: if minutes > 1440
MaxConnections == 5       \* get_connection: max_connections = 5
IntervalChoices == {1800}         \* 30 minutes typed for set_interval_submit
Chats == {1, 2}                   \* chat ids the bot may be a member of
None == 0                         \* Python None / absent row

VARIABLES
    state,            \* BotContext.state: 0 is IdleState, r > 0 a RunningState
    rs,               \* RunningState objects: interval, _rotation_task, index
    procs,            \* coroutines: the handler slots, then the rotation tasks
    config,           \* config table, key rotation_interval (None if absent)
    target_chats,     \* target_chats table
    source_channels,  \* Config.source_channels
    last_messages,    \* last_messages table: channel_id -> message_id
    pinned_messages,  \* pinned_messages table: set of rows <<chat_id, message_id>>
    forward_stats,    \* forward_stats table: logged message ids, in order
    chatNext,         \* transport: next message id in each chat
    chatPinned,       \* transport: messages currently pinned in each chat
    faults,           \* failures injected so far
    unpinCalls,       \* transport: number of unpin_chat_message calls made
    chanLast,         \* transport: id of the newest post in each source channel
    gone,             \* transport: posts of each source channel that no longer resolve
    clock,            \* datetime.now(): the day and the minute of the day
    schedules,        \* schedules table: rows of channel_id, start_time, end_time
    pool,             \* DatabaseConnectionPool._pool: in_use of each connection
    callers,          \* get_connection calls: where each one stands
    delivered         \* transport: slot, chat and day of each scheduled forward

vars == <<state, rs, procs, config, target_chats, source_channels, last_messages,
          pinned_messages, forward_stats, chatNext, chatPinned, faults,
          unpinCalls, chanLast, gone, clock, schedules, pool, callers, delivered>>

storeVars == <<config, target_chats, source_channels, last_messages,
               pinned_messages, forward_stats>>
tgVars == <<chatNext, chatPinned, unpinCalls, chanLast, gone>>
\* the wall clock and what only the schedule task and the connection pool use
auxVars == <<clock, schedules, pool, callers, delivered>>

\* ------------------------------------------------------------- helpers
Idle == 0
IsRunning(s) == s # Idle

\* chat_info.type as get_chat reports it; the bot registers groups and supergroups
ChatType(d) == IF d \in Chats THEN "supergroup" ELSE "channel"

\* str(chat_id)
Str(n) == ToString(n)

\* SELECT chat_id FROM target_chats: rows come back in primary-key order
RECURSIVE SortedSeq(_)
SortedSeq(S) ==
    IF S = {} THEN <<>>
    ELSE LET m == CHOOSE x \in S : \A y \in S : x <= y
         IN <<m>> \o SortedSeq(S \ {m})

\* every chat the bot was ever added to, whatever the table holds
every_chat == SortedSeq(Chats)

get_target_chats == SortedSeq(target_chats)

\* SELECT message_id FROM pinned_messages WHERE chat_id = ?; row[0] if row else None
get_pinned_message(chat) ==
    IF \E row \in pinned_messages : row[1] = chat
    THEN (CHOOSE row \in pinned_messages : row[1] = chat)[2]
    ELSE None

\* INSERT into a table whose primary key is chat_id, without conflict clause
insert_plain(rows, chat, msg) == rows \cup {<<chat, msg>>}

\* INSERT OR REPLACE INTO pinned_messages (chat_id PRIMARY KEY, message_id)
save_pinned_message(rows, chat, msg) ==
    {row \in rows : row[1] # chat} \cup {<<chat, msg>>}

\* SELECT message_id FROM last_messages WHERE channel_id = ?
get_last_message(ch) ==
    IF ch \in DOMAIN last_messages THEN last_messages[ch] ELSE None

\* Repository.get_config("rotation_interval", "7200") followed by int()
get_config_interval == IF config = None THEN DefaultInterval ELSE config

\* a process record; fields that are not in use hold their default
NoProc ==
    [kind |-> "none", pc |-> "done", owner |-> 0, cancelReq |-> FALSE,
     remaining |-> 0, caller |-> "none", chIdx |-> 0, channel |-> "",
     message_id |-> 0, chats |-> <<>>, ci |-> 0, fwd |-> 0, old |-> 0,
     unpinFailed |-> FALSE, success |-> FALSE, arg |-> 0,
     date |-> 0, slots |-> {}, slot |-> <<>>]

NewProc(k, label) == [NoProc EXCEPT !.kind = k, !.pc = label]

\* a coroutine that has returned: a task keeps what Task.done() needs,
\* a handler invocation leaves its slot free
Finished(q) ==
    IF q.kind = "rot" THEN [NoProc EXCEPT !.kind = q.kind, !.owner = q.owner]
    ELSE NoProc

\* slots of toggle_forwarding invocations, slots of the other handlers
StartSlots == 1..MaxStarts
HandlerSlots == (MaxStarts + 1)..(MaxStarts + MaxHandlers)
NumSlots == MaxStarts + MaxHandlers
Free(h) == procs[h].kind = "none"
\* a new handler invocation takes the first free slot of its range
Launch(slots, q) ==
    \E h \in slots :
        /\ Free(h) /\ \A g \in slots : g < h => ~Free(g)
        /\ procs' = [procs EXCEPT ![h] = q]
TaskRoom(ps) == Len(ps) - NumSlots < MaxTasks

PIds == 1..Len(procs)
IsTask(p) == procs[p].kind = "rot"
Done(p) == procs[p].pc = "done"
\* a rotation task that is neither finished nor cancelled
Live(p) == IsTask(p) /\ ~Done(p) /\ ~procs[p].cancelReq
LiveTasks == {p \in PIds : Live(p)}

CanFault == faults < MaxFaults

\* a suspended coroutine may be resumed unless its cancellation is pending
Runnable(p) == ~Done(p) /\ ~procs[p].cancelReq

SetProc(p, q) == procs' = [procs EXCEPT ![p] = q]

\* ------------------------------------------------- rotation task: sleeping
\* await asyncio.sleep(self.interval): the interval is read when the sleep starts
Sleep(q) ==
    [NoProc EXCEPT !.kind = q.kind, !.owner = q.owner, !.pc = "r_sleep",
                   !.remaining = rs[q.owner].interval]

\* except Exception: ... await asyncio.sleep(10)
Raise(q) ==
    IF q.kind = "rot"
    THEN [NoProc EXCEPT !.kind = q.kind, !.owner = q.owner, !.pc = "r_backoff",
                        !.remaining = Backoff]
    ELSE Finished(q)

\* ------------------------------------- BotContext.forward_latest_messages
\* for channel_id in source_channels: message_id = await get_last_message(...)
FlLoop(q, k) ==
    IF k > Len(source_channels)
    THEN IF q.kind = "rot" THEN Sleep(q) ELSE Finished(q)
    ELSE [q EXCEPT !.pc = "fl_last", !.chIdx = k, !.channel = source_channels[k],
                   !.caller = "latest", !.chats = <<>>, !.ci = 0, !.fwd = 0,
                   !.old = 0, !.unpinFailed = FALSE, !.message_id = 0]

\* if not source_channels: return False;  target_chats = await get_target_chats()
FlEnter(q) ==
    IF source_channels = <<>>
    THEN IF q.kind = "rot" THEN Sleep(q) ELSE Finished(q)
    ELSE [q EXCEPT !.pc = "fl_targets", !.caller = "latest"]

\* ------------------------------------- BotContext.forward_and_pin_message
\* what follows the return of forward_and_pin_message in each caller
Return(q) ==
    CASE q.caller = "latest" -> FlLoop(q, q.chIdx + 1)
      [] q.caller = "loop"   -> Sleep(q)
      [] OTHER               -> Finished(q)

\* if str(chat_id) == channel_id: the chat is the source channel itself
never_source(chat, ch) == FALSE
is_source(chat, ch) == Str(chat) = ch

\* for chat_id in target_chats: if str(chat_id) == channel_id: continue
RECURSIVE FpLoop(_, _)
FpLoop(q, i) ==
    IF i > Len(q.chats) THEN Return(q)
    ELSE IF is_source(q.chats[i], q.channel) THEN FpLoop(q, i + 1)
    ELSE [q EXCEPT !.pc = "fp_getchat", !.ci = i, !.fwd = 0, !.old = 0,
                   !.unpinFailed = FALSE]

\* the error leaves forward_and_pin_message and reaches the caller
Propagate(q) == Raise(q)

\* except Exception as e: logger.error(...): the loop goes on with the next chat
Except(q) == FpLoop(q, q.ci + 1)

\* entry of forward_and_pin_message(channel_id, message_id)
FpEnter(q, from, ch, msg) ==
    [q EXCEPT !.pc = "fp_targets", !.caller = from, !.channel = ch,
              !.message_id = msg, !.success = FALSE, !.chats = <<>>, !.ci = 0,
              !.fwd = 0, !.old = 0, !.unpinFailed = FALSE]

\* if old_pinned_id: try: await unpin_chat_message(...)
AfterGetPinned(old) == IF old # None THEN "fp_unpin" ELSE "fp_pin"

\* target_chats = await Repository.get_target_chats(); if not target_chats: return False
FpTargets(p) ==
    /\ Runnable(p) /\ procs[p].pc = "fp_targets"
    /\ \/ /\ SetProc(p, IF get_target_chats = <<>>
                        THEN Return(procs[p])
                        ELSE FpLoop([procs[p] EXCEPT !.chats = get_target_chats], 1))
          /\ UNCHANGED faults
       \/ /\ CanFault /\ faults' = faults + 1
          /\ SetProc(p, Raise(procs[p]))
    /\ UNCHANGED <<state, rs, storeVars, tgVars, auxVars>>

\* if chat_info.type == 'channel': messages cannot be pinned there by the bot
never_channel(d) == FALSE
is_channel(d) == ChatType(d) = "channel"

\* chat_info = await self.bot.get_chat(chat_id); if chat_info.type == 'channel': continue
FpGetChat(p) ==
    /\ Runnable(p) /\ procs[p].pc = "fp_getchat"
    /\ \/ /\ SetProc(p, IF is_channel(procs[p].chats[procs[p].ci])
                        THEN FpLoop(procs[p], procs[p].ci + 1)
                        ELSE [procs[p] EXCEPT !.pc = "fp_forward"])
          /\ UNCHANGED faults
       \/ /\ CanFault /\ faults' = faults + 1
          /\ SetProc(p, Except(procs[p]))
    /\ UNCHANGED <<state, rs, storeVars, tgVars, auxVars>>

\* the Bot API finds message m of channel ch
Resolves(ch, m) == ch \in DOMAIN gone /\ m \notin gone[ch]

\* forwarded_message = await self.bot.forward_message(...); a message that no
\* longer resolves raises "message to forward not found", caught like any error
FpForward(p) ==
    LET q == procs[p]
        d == q.chats[q.ci]
    IN /\ Runnable(p) /\ q.pc = "fp_forward"
       /\ \/ /\ Resolves(q.channel, q.message_id)
             /\ chatNext[d] <= MaxMsg
             /\ chatNext' = [chatNext EXCEPT ![d] = @ + 1]
             /\ SetProc(p, [q EXCEPT !.pc = "fp_getpinned", !.fwd = chatNext[d]])
             /\ UNCHANGED faults
          \/ /\ ~Resolves(q.channel, q.message_id)
             /\ SetProc(p, Except(q))
             /\ UNCHANGED <<chatNext, faults, auxVars>>
          \/ /\ CanFault /\ faults' = faults + 1
             /\ SetProc(p, Except(q))
             /\ UNCHANGED chatNext
       /\ UNCHANGED <<state, rs, storeVars, chatPinned, unpinCalls, chanLast, gone, auxVars>>

\* old_pinned_id = await Repository.get_pinned_message(str(chat_id))
FpGetPinned(p) ==
    LET q == procs[p]
        d == q.chats[q.ci]
        old == get_pinned_message(Str(d))
    IN /\ Runnable(p) /\ q.pc = "fp_getpinned"
       /\ \/ /\ SetProc(p, [q EXCEPT !.pc = AfterGetPinned(old), !.old = old])
             /\ UNCHANGED faults
          \/ /\ CanFault /\ faults' = faults + 1
             /\ SetProc(p, Except(q))
       /\ UNCHANGED <<state, rs, storeVars, tgVars, auxVars>>

\* except Exception as e: logger.warning(...): the publish goes on to the pin
unpin_aborts(q) == Except(q)
unpin_failed(q) == [q EXCEPT !.pc = "fp_pin", !.unpinFailed = TRUE]

\* try: await unpin_chat_message(chat_id, old_pinned_id) except Exception: warning
FpUnpin(p) ==
    LET q == procs[p]
        d == q.chats[q.ci]
    IN /\ Runnable(p) /\ q.pc = "fp_unpin"
       /\ unpinCalls' = unpinCalls + 1
       /\ \/ /\ chatPinned' = [chatPinned EXCEPT ![d] = @ \ {q.old}]
             /\ SetProc(p, [q EXCEPT !.pc = "fp_pin"])
             /\ UNCHANGED faults
          \/ /\ CanFault /\ faults' = faults + 1
             /\ SetProc(p, unpin_failed(q))
             /\ UNCHANGED chatPinned
       /\ UNCHANGED <<state, rs, storeVars, chatNext, chanLast, gone, auxVars>>

\* await pin_chat_message(chat_id, forwarded_message.message_id)
FpPin(p) ==
    LET q == procs[p]
        d == q.chats[q.ci]
    IN /\ Runnable(p) /\ q.pc = "fp_pin"
       /\ \/ /\ chatPinned' = [chatPinned EXCEPT ![d] = @ \cup {q.fwd}]
             /\ SetProc(p, [q EXCEPT !.pc = "fp_save"])
             /\ UNCHANGED faults
          \/ /\ CanFault /\ faults' = faults + 1
             /\ SetProc(p, Except(q))
             /\ UNCHANGED chatPinned
       /\ UNCHANGED <<state, rs, storeVars, chatNext, unpinCalls, chanLast, gone, auxVars>>

\* await Repository.save_pinned_message(str(chat_id), forwarded_message.message_id)
FpSave(p) ==
    LET q == procs[p]
        d == q.chats[q.ci]
    IN /\ Runnable(p) /\ q.pc = "fp_save"
       /\ \/ /\ pinned_messages' = save_pinned_message(pinned_messages, Str(d), q.fwd)
             /\ SetProc(p, [q EXCEPT !.pc = "fp_log"])
             /\ UNCHANGED faults
          \/ /\ CanFault /\ faults' = faults + 1
             /\ SetProc(p, Except(q))
             /\ UNCHANGED pinned_messages
       /\ UNCHANGED <<state, rs, config, target_chats, source_channels,
                      last_messages, forward_stats, tgVars, auxVars>>

\* await Repository.log_forward(message_id); success = True
FpLog(p) ==
    LET q == procs[p]
    IN /\ Runnable(p) /\ q.pc = "fp_log"
       /\ \/ /\ forward_stats' = Append(forward_stats, q.message_id)
             /\ SetProc(p, FpLoop([q EXCEPT !.success = TRUE], q.ci + 1))
             /\ UNCHANGED faults
          \/ /\ CanFault /\ faults' = faults + 1
             /\ SetProc(p, Except(q))
             /\ UNCHANGED forward_stats
       /\ UNCHANGED <<state, rs, config, target_chats, source_channels,
                      last_messages, pinned_messages, tgVars, auxVars>>

\* forward_latest_messages: target_chats = await get_target_chats(); if not ...: return False
FlTargets(p) ==
    /\ Runnable(p) /\ procs[p].pc = "fl_targets"
    /\ \/ /\ SetProc(p, IF get_target_chats = <<>>
                        THEN (IF IsTask(p) THEN Sleep(procs[p]) ELSE Finished(procs[p]))
                        ELSE FlLoop(procs[p], 1))
          /\ UNCHANGED faults
       \/ /\ CanFault /\ faults' = faults + 1
          /\ SetProc(p, Raise(procs[p]))
    /\ UNCHANGED <<state, rs, storeVars, tgVars, auxVars>>

\* message_id = await get_last_message(channel_id); if not message_id: continue
FlLast(p) ==
    LET q == procs[p]
        m == get_last_message(q.channel)
    IN /\ Runnable(p) /\ q.pc = "fl_last"
       /\ \/ /\ SetProc(p, IF m = None THEN FlLoop(q, q.chIdx + 1)
                           ELSE FpEnter(q, "latest", q.channel, m))
             /\ UNCHANGED faults
          \/ /\ CanFault /\ faults' = faults + 1
             /\ SetProc(p, Raise(q))
       /\ UNCHANGED <<state, rs, storeVars, tgVars, auxVars>>

\* ------------------------------------------------------------ RunningState
\* if not self._rotation_task or self._rotation_task.done()
NeedsTask(r) == rs[r].task = None \/ Done(rs[r].task)

NewTask(r) == [NewProc("rot", "r_start") EXCEPT !.owner = r]

\* RunningState._start_rotation_task; ps and rr are procs and rs as the
\* caller has changed them so far (done() is that of the moment of the call)
StartRotationTask(r, ps, rr) ==
    IF NeedsTask(r)
    THEN /\ TaskRoom(ps)
         /\ procs' = Append(ps, NewTask(r))
         /\ rs' = [rr EXCEPT ![r].task = Len(ps) + 1]
    ELSE /\ procs' = ps
         /\ rs' = rr

\* first step of _channel_rotation: success = await forward_latest_messages()
RotStart(p) ==
    /\ Runnable(p) /\ procs[p].pc = "r_start"
    /\ SetProc(p, FlEnter(procs[p]))
    /\ UNCHANGED <<state, rs, storeVars, tgVars, faults, auxVars>>

\* the index of the last processed channel stays where it is
same_index(i, n) == i % n

\* (self._last_processed_channel_index + 1) % len(source_channels)
next_index(i, n) == (i + 1) % n

\* the length the list had when the engine was started
feed_count_at_start(list) == IF list = <<>> THEN 0 ELSE 3

\* len(source_channels) of the list read after the sleep
feed_count(list) == Len(list)

\* await asyncio.sleep(self.interval) returns; next channel in round robin
\* (an index outside the list raises IndexError);
\* message_id = await Repository.get_last_message(channel_id)
RotWake(p) ==
    LET q == procs[p]
        r == q.owner
        idx == next_index(rs[r].index, feed_count(source_channels))
    IN /\ Runnable(p) /\ q.pc = "r_sleep" /\ q.remaining = 0
       /\ IF source_channels = <<>>
          THEN /\ SetProc(p, Sleep(q))
               /\ UNCHANGED rs
          ELSE /\ rs' = [rs EXCEPT ![r].index = idx]
               /\ SetProc(p, IF idx + 1 \in DOMAIN source_channels
                             THEN [q EXCEPT !.pc = "r_last", !.remaining = 0,
                                            !.channel = source_channels[idx + 1]]
                             ELSE Raise(q))
       /\ UNCHANGED <<state, storeVars, tgVars, faults, auxVars>>

\* if not message_id: continue;  success = await forward_and_pin_message(...)
RotLast(p) ==
    LET q == procs[p]
        m == get_last_message(q.channel)
    IN /\ Runnable(p) /\ q.pc = "r_last"
       /\ \/ /\ SetProc(p, IF m = None THEN Sleep(q)
                           ELSE FpEnter(q, "loop", q.channel, m))
             /\ UNCHANGED faults
          \/ /\ CanFault /\ faults' = faults + 1
             /\ SetProc(p, Raise(q))
       /\ UNCHANGED <<state, rs, storeVars, tgVars, auxVars>>

\* except Exception: await asyncio.sleep(10); self._start_rotation_task()
RotBackoffEnd(p) ==
    LET q == procs[p]
    IN /\ Runnable(p) /\ q.pc = "r_backoff" /\ q.remaining = 0
       /\ StartRotationTask(q.owner, [procs EXCEPT ![p] = Finished(q)], rs)
       /\ UNCHANGED <<state, storeVars, tgVars, faults, auxVars>>

\* Task.cancel() takes effect when the task is next resumed: CancelledError is
\* raised at the await it is suspended at; except asyncio.CancelledError: exit
DeliverCancel(p) ==
    /\ ~Done(p) /\ procs[p].cancelReq
    /\ SetProc(p, Finished(procs[p]))
    /\ UNCHANGED <<state, rs, storeVars, tgVars, faults, auxVars>>

\* if self._rotation_task and not self._rotation_task.done(): self._rotation_task.cancel()
CancelTask(ps, r) ==
    IF rs[r].task # None /\ ~Done(rs[r].task)
    THEN [ps EXCEPT ![rs[r].task].cancelReq = TRUE]
    ELSE ps

\* RunningState.update_interval(new_interval); ps is procs as the caller has
\* changed it so far
update_interval(r, new, ps) ==
    StartRotationTask(r, CancelTask(ps, r), [rs EXCEPT ![r].interval = new])

\* ----------------------------------------- ForwarderBot.toggle_forwarding
\* state is a RunningState: await self.context.stop() -> RunningState.stop:
\* cancel the task, self.context.state = IdleState(...), notify the admins
ToggleStop ==
    /\ IsRunning(state)
    /\ procs' = CancelTask(procs, state)
    /\ state' = Idle
    /\ UNCHANGED <<rs, storeVars, tgVars, faults, auxVars>>

\* state is an IdleState: interval = await get_config(...); await edit_text(...)
ToggleStart ==
    /\ state = Idle
    /\ Launch(StartSlots, NewProc("start", "tg_prestart"))
    /\ UNCHANGED <<state, rs, storeVars, tgVars, faults, auxVars>>

\* await self.context.start(): the state of this moment decides;
\* IdleState.start suspends at its get_config, whose SELECT may run as soon as
\* it is issued; RunningState.start does nothing
TgPrestart(p) ==
    /\ Runnable(p) /\ procs[p].pc = "tg_prestart"
    /\ \/ /\ SetProc(p, IF state = Idle
                        THEN [procs[p] EXCEPT !.pc = "st_cfg",
                                              !.arg = get_config_interval]
                        ELSE Finished(procs[p]))
          /\ UNCHANGED faults
       \/ /\ CanFault /\ faults' = faults + 1
          /\ SetProc(p, Finished(procs[p]))
    /\ UNCHANGED <<state, rs, storeVars, tgVars, auxVars>>

\* what get_config may have read by the time IdleState.start is resumed: the
\* row as it was when the SELECT was issued, or as it is now
ReadIntervals(q) == {q.arg, get_config_interval}

\* IdleState.start after its get_config:
\* self.context.state = RunningState(self.context, interval); notify the admins
StCfg(p) ==
    LET r == Len(rs) + 1
    IN /\ Runnable(p) /\ procs[p].pc = "st_cfg"
       /\ \/ /\ Len(rs) < MaxStates /\ TaskRoom(procs)
             /\ \E i \in ReadIntervals(procs[p]) :
                   rs' = Append(rs, [interval |-> i,
                                     task |-> Len(procs) + 1, index |-> -1])
             /\ procs' = Append([procs EXCEPT ![p] = Finished(procs[p])], NewTask(r))
             /\ state' = r
             /\ UNCHANGED faults
          \/ /\ CanFault /\ faults' = faults + 1
             /\ SetProc(p, Finished(procs[p]))
             /\ UNCHANGED <<state, rs>>
       /\ UNCHANGED <<storeVars, tgVars, auxVars>>

\* ------------ ForwarderBot.remove_chat / ForwarderBot.handle_chat_member
\* DELETE FROM pinned_messages WHERE chat_id = ?
delete_pinned_message(rows, chat) == {row \in rows : row[1] # chat}

\* DELETE FROM target_chats WHERE chat_id = ?
remove_target_chat(chats, d) == chats \ {d}

\* remove_chat: chat_id = int(callback.data.split("_")[1]);
\* pinned_message_id = await Repository.get_pinned_message(str(chat_id))
RemoveChat(d) ==
    /\ Launch(HandlerSlots, [NewProc("remove", "rc_getpinned") EXCEPT !.arg = d])
    /\ UNCHANGED <<state, rs, storeVars, tgVars, faults, auxVars>>

\* if pinned_message_id: await unpin_chat_message(...); an error of the lookup
\* is logged and the removal goes on
RcGetPinned(p) ==
    LET q == procs[p]
        old == get_pinned_message(Str(q.arg))
    IN /\ Runnable(p) /\ q.pc = "rc_getpinned"
       /\ \/ /\ SetProc(p, [q EXCEPT !.pc = IF old # None THEN "rc_unpin"
                                            ELSE "rc_remove",
                                     !.old = old])
             /\ UNCHANGED faults
          \/ /\ CanFault /\ faults' = faults + 1
             /\ SetProc(p, [q EXCEPT !.pc = "rc_remove"])
       /\ UNCHANGED <<state, rs, storeVars, tgVars, auxVars>>

\* try: await unpin_chat_message(...) except Exception: warning;
\* then await Repository.remove_target_chat(chat_id)
RcUnpin(p) ==
    LET q == procs[p]
    IN /\ Runnable(p) /\ q.pc = "rc_unpin"
       /\ unpinCalls' = unpinCalls + 1
       /\ \/ /\ chatPinned' = [chatPinned EXCEPT ![q.arg] = @ \ {q.old}]
             /\ SetProc(p, [q EXCEPT !.pc = "rc_remove"])
             /\ UNCHANGED faults
          \/ /\ CanFault /\ faults' = faults + 1
             /\ SetProc(p, [q EXCEPT !.pc = "rc_remove", !.unpinFailed = TRUE])
             /\ UNCHANGED chatPinned
       /\ UNCHANGED <<state, rs, storeVars, chatNext, chanLast, gone, auxVars>>

\* await Repository.remove_target_chat(chat_id); an error that is not a
\* ValueError leaves the handler
RcRemove(p) ==
    LET q == procs[p]
    IN /\ Runnable(p) /\ q.pc = "rc_remove"
       /\ \/ /\ target_chats' = remove_target_chat(target_chats, q.arg)
             /\ SetProc(p, [q EXCEPT !.pc = "rc_delete"])
             /\ UNCHANGED faults
          \/ /\ CanFault /\ faults' = faults + 1
             /\ SetProc(p, Finished(q))
             /\ UNCHANGED target_chats
       /\ UNCHANGED <<state, rs, config, source_channels, last_messages,
                      pinned_messages, forward_stats, tgVars, auxVars>>

\* await Repository.delete_pinned_message(str(chat_id)); then list_chats
RcDelete(p) ==
    LET q == procs[p]
    IN /\ Runnable(p) /\ q.pc = "rc_delete"
       /\ \/ /\ pinned_messages' = delete_pinned_message(pinned_messages, Str(q.arg))
             /\ SetProc(p, [q EXCEPT !.pc = "rc_list"])
             /\ UNCHANGED faults
          \/ /\ CanFault /\ faults' = faults + 1
             /\ SetProc(p, Finished(q))
             /\ UNCHANGED pinned_messages
       /\ UNCHANGED <<state, rs, config, target_chats, source_channels,
                      last_messages, forward_stats, tgVars, auxVars>>

\* await self.list_chats(callback); await callback.answer(...): the handler
\* returns
RcList(p) ==
    /\ Runnable(p) /\ procs[p].pc = "rc_list"
    /\ SetProc(p, Finished(procs[p]))
    /\ UNCHANGED <<state, rs, storeVars, tgVars, faults, auxVars>>

\* handle_chat_member, the bot is no longer a member of the chat:
\* await Repository.delete_pinned_message(str(chat_id))
ChatLeft(d) ==
    /\ Launch(HandlerSlots, [NewProc("member", "cm_delete") EXCEPT !.arg = d])
    /\ UNCHANGED <<state, rs, storeVars, tgVars, faults, auxVars>>

CmDelete(p) ==
    LET q == procs[p]
    IN /\ Runnable(p) /\ q.pc = "cm_delete"
       /\ \/ /\ pinned_messages' = delete_pinned_message(pinned_messages, Str(q.arg))
             /\ SetProc(p, [q EXCEPT !.pc = "cm_remove"])
             /\ UNCHANGED faults
          \/ /\ CanFault /\ faults' = faults + 1
             /\ SetProc(p, Finished(q))
             /\ UNCHANGED pinned_messages
       /\ UNCHANGED <<state, rs, config, target_chats, source_channels,
                      last_messages, forward_stats, tgVars, auxVars>>

\* await Repository.remove_target_chat(chat_id); notify the admins
CmRemove(p) ==
    LET q == procs[p]
    IN /\ Runnable(p) /\ q.pc = "cm_remove"
       /\ \/ /\ target_chats' = remove_target_chat(target_chats, q.arg)
             /\ UNCHANGED faults
          \/ /\ CanFault /\ faults' = faults + 1
             /\ UNCHANGED target_chats
       /\ SetProc(p, Finished(q))
       /\ UNCHANGED <<state, rs, config, source_channels, last_messages,
                      pinned_messages, forward_stats, tgVars, auxVars>>

\* test_pin_handler for a chat of the list: chat_id = int(parts[2]);
\* test_message = await self.bot.send_message(chat_id, ...)
TestPin(d) ==
    /\ d \in target_chats
    /\ Launch(HandlerSlots, [NewProc("test", "tp_send") EXCEPT !.arg = d])
    /\ UNCHANGED <<state, rs, storeVars, tgVars, faults, auxVars>>

\* except Exception as e: the error is shown and the handler returns
TpFails(q) == Finished(q)

\* the test message is in the chat: await pin_chat_message(...)
TpSend(p) ==
    LET q == procs[p]
    IN /\ Runnable(p) /\ q.pc = "tp_send"
       /\ \/ /\ chatNext[q.arg] <= MaxMsg
             /\ chatNext' = [chatNext EXCEPT ![q.arg] = @ + 1]
             /\ SetProc(p, [q EXCEPT !.pc = "tp_pin", !.fwd = chatNext[q.arg]])
             /\ UNCHANGED faults
          \/ /\ CanFault /\ faults' = faults + 1
             /\ SetProc(p, TpFails(q))
             /\ UNCHANGED chatNext
       /\ UNCHANGED <<state, rs, storeVars, chatPinned, unpinCalls, chanLast, gone,
                      auxVars>>

\* the test message is pinned:
\* await Repository.save_pinned_message(str(chat_id), test_message.message_id)
TpPin(p) ==
    LET q == procs[p]
    IN /\ Runnable(p) /\ q.pc = "tp_pin"
       /\ \/ /\ chatPinned' = [chatPinned EXCEPT ![q.arg] = @ \cup {q.fwd}]
             /\ SetProc(p, [q EXCEPT !.pc = "tp_save"])
             /\ UNCHANGED faults
          \/ /\ CanFault /\ faults' = faults + 1
             /\ SetProc(p, TpFails(q))
             /\ UNCHANGED chatPinned
       /\ UNCHANGED <<state, rs, storeVars, chatNext, unpinCalls, chanLast, gone,
                      auxVars>>

\* the row is written, whatever target_chats holds by now; the result is
\* shown and await asyncio.sleep(5) follows
TpSave(p) ==
    LET q == procs[p]
    IN /\ Runnable(p) /\ q.pc = "tp_save"
       /\ \/ /\ pinned_messages' = save_pinned_message(pinned_messages,
                                                       Str(q.arg), q.fwd)
             /\ SetProc(p, [q EXCEPT !.pc = "tp_sleep"])
             /\ UNCHANGED faults
          \/ /\ CanFault /\ faults' = faults + 1
             /\ SetProc(p, TpFails(q))
             /\ UNCHANGED pinned_messages
       /\ UNCHANGED <<state, rs, config, target_chats, source_channels,
                      last_messages, forward_stats, tgVars, auxVars>>

\* after the sleep: await unpin_chat_message(chat_id, test_message.message_id);
\* the pinned_messages row stays; the handler returns
TpUnpin(p) ==
    LET q == procs[p]
    IN /\ Runnable(p) /\ q.pc = "tp_sleep"
       /\ unpinCalls' = unpinCalls + 1
       /\ SetProc(p, Finished(q))
       /\ \/ /\ chatPinned' = [chatPinned EXCEPT ![q.arg] = @ \ {q.fwd}]
             /\ UNCHANGED faults
          \/ /\ CanFault /\ faults' = faults + 1
             /\ UNCHANGED chatPinned
       /\ UNCHANGED <<state, rs, storeVars, chatNext, chanLast, gone, auxVars>>

\* steps of test_pin_handler
TestStep(p) == TpSend(p) \/ TpPin(p) \/ TpSave(p) \/ TpUnpin(p)

\* steps of remove_chat and of handle_chat_member
RemoveStep(p) ==
    \/ RcGetPinned(p) \/ RcUnpin(p) \/ RcRemove(p) \/ RcDelete(p) \/ RcList(p)
    \/ CmDelete(p) \/ CmRemove(p)

\* ------------------------------------ BotContext.start / BotContext.stop
\* a caller awaits self.context.start() or self.context.stop(), whatever the
\* state is
CallStart ==
    /\ Launch(StartSlots, NewProc("start", "cx_start"))
    /\ UNCHANGED <<state, rs, storeVars, tgVars, faults, auxVars>>

CallStop ==
    /\ Launch(StartSlots, NewProc("stop", "cx_stop"))
    /\ UNCHANGED <<state, rs, storeVars, tgVars, faults, auxVars>>

\* RunningState.start: pass, and the caller goes on
restarting_start(q) == [q EXCEPT !.pc = "st_cfg", !.arg = get_config_interval]
running_start(q) == [q EXCEPT !.pc = "cx_ret"]

\* await self.state.start(): IdleState.start suspends at its get_config
CxStart(p) ==
    /\ Runnable(p) /\ procs[p].pc = "cx_start"
    /\ SetProc(p, IF state = Idle
                  THEN [procs[p] EXCEPT !.pc = "st_cfg",
                                        !.arg = get_config_interval]
                  ELSE running_start(procs[p]))
    /\ UNCHANGED <<state, rs, storeVars, tgVars, faults, auxVars>>

\* await self.state.stop(): RunningState.stop cancels the task and installs an
\* IdleState; IdleState.stop: pass, and the caller goes on
CxStop(p) ==
    /\ Runnable(p) /\ procs[p].pc = "cx_stop"
    /\ IF IsRunning(state)
       THEN /\ procs' = [CancelTask(procs, state) EXCEPT ![p] = Finished(procs[p])]
            /\ state' = Idle
       ELSE /\ SetProc(p, [procs[p] EXCEPT !.pc = "cx_ret"])
            /\ UNCHANGED state
    /\ UNCHANGED <<rs, storeVars, tgVars, faults, auxVars>>

\* the caller after a start() or stop() that did nothing
CxRet(p) ==
    /\ Runnable(p) /\ procs[p].pc = "cx_ret"
    /\ SetProc(p, Finished(procs[p]))
    /\ UNCHANGED <<state, rs, storeVars, tgVars, faults, auxVars>>

\* ------------------------------------- ForwarderBot.set_interval_submit
\* await Repository.set_config("rotation_interval", str(interval))
SetInterval(i) ==
    /\ Launch(HandlerSlots, [NewProc("setint", "si_set") EXCEPT !.arg = i])
    /\ UNCHANGED <<state, rs, storeVars, tgVars, faults, auxVars>>

\* whatever number the admin typed is taken
any_minutes(m) == TRUE

\* set_interval_submit: minutes below 5 or above 1440 are answered with a
\* warning and nothing is written
valid_minutes(m) == ~(m < MinMinutes) /\ ~(m > MaxMinutes)

\* numbers of minutes an admin may type
MinuteInputs == {MinMinutes - 1, MinMinutes, MaxMinutes, MaxMinutes + 1}

\* set_interval_submit(message) with the text m: interval = minutes * 60;
\* await Repository.set_config("rotation_interval", str(interval))
SubmitInterval(m) ==
    /\ valid_minutes(m)
    /\ SetInterval(m * 60)

\* set_config has written; if isinstance(state, RunningState): update_interval(interval)
SiSet(p) ==
    LET q == procs[p]
    IN /\ Runnable(p) /\ q.pc = "si_set"
       /\ \/ /\ config' = q.arg
             /\ IF IsRunning(state)
                THEN update_interval(state, q.arg, [procs EXCEPT ![p] = Finished(q)])
                ELSE /\ SetProc(p, Finished(q))
                     /\ UNCHANGED rs
             /\ UNCHANGED faults
          \/ /\ CanFault /\ faults' = faults + 1
             /\ SetProc(p, Finished(q))
             /\ UNCHANGED <<config, rs>>
       /\ UNCHANGED <<state, target_chats, source_channels, last_messages,
                      pinned_messages, forward_stats, tgVars, auxVars>>

\* --------------------------------------- ForwarderBot.forward_now_handler
\* await edit_text(...); success = await self.context.forward_latest_messages()
ForwardNow ==
    /\ Launch(HandlerSlots, FlEnter(NewProc("fwdnow", "fn_start")))
    /\ UNCHANGED <<state, rs, storeVars, tgVars, faults, auxVars>>

\* --------------------------------------- ForwarderBot.handle_channel_post
\* a source_channels entry that is the username of its channel, and the id of
\* that channel's chat
NamedFeed == "news"
NamedChat == "40"

\* str(message.chat.id) of the posts that the is_source loop matches with a
\* source_channels entry: channel == chat_id, or
\* channel.lower() == username.lower()
chat_of(entry) == IF entry = NamedFeed THEN NamedChat ELSE entry

\* a post in a source channel: await Repository.save_last_message(chat_id, message_id)
ChannelPost(k) ==
    LET ch == chat_of(source_channels[k])
    IN /\ chanLast[ch] < MaxPost
       /\ chanLast' = [chanLast EXCEPT ![ch] = @ + 1]
       /\ Launch(HandlerSlots, [NewProc("post", "po_save") EXCEPT
                    !.channel = ch, !.message_id = chanLast[ch] + 1])
       /\ UNCHANGED <<state, rs, storeVars, chatNext, chatPinned, unpinCalls,
                      faults, gone, auxVars>>

\* every channel post is forwarded, whatever the state
always_forwards == TRUE

\* isinstance(self.context.state, RunningState) and self.context.state.auto_forward
auto_forwards == IsRunning(state)

\* save_last_message has written; if RunningState and auto_forward:
\* await self.context.forward_and_pin_message(chat_id, message.message_id)
PoSave(p) ==
    LET q == procs[p]
    IN /\ Runnable(p) /\ q.pc = "po_save"
       /\ \/ /\ last_messages' = [last_messages EXCEPT ![q.channel] = q.message_id]
             /\ SetProc(p, IF auto_forwards
                           THEN FpEnter(q, "post", q.channel, q.message_id)
                           ELSE Finished(q))
             /\ UNCHANGED faults
          \/ /\ CanFault /\ faults' = faults + 1
             /\ SetProc(p, Finished(q))
             /\ UNCHANGED last_messages
       /\ UNCHANGED <<state, rs, config, target_chats, source_channels,
                      pinned_messages, forward_stats, tgVars, auxVars>>

\* ------------------------------------- utils/message_utils.find_latest_message
\* the posts of channel ch that resolve, among the ids lo..hi
Resolving(ch, lo, hi) ==
    IF ch \in DOMAIN chanLast
    THEN {m \in 1..chanLast[ch] : lo <= m /\ m <= hi /\ m \notin gone[ch]}
    ELSE {}

Highest(S) == CHOOSE m \in S : \A n \in S : n <= m

\* find_latest_message(bot, channel_id, owner_id, last_saved_id): the newest
\* resolving id among start_id .. start_id + max_check - 1; failing that, the
\* first resolving id going down from start_id to max(1, start_id - max_check) + 1
find_latest_message(ch, last) ==
    LET start_id == IF last # None THEN last + SearchAhead ELSE SearchFrom
        ahead == Resolving(ch, start_id, start_id + MaxCheck - 1)
        floor == IF start_id - MaxCheck > 1 THEN start_id - MaxCheck ELSE 1
        back == Resolving(ch, floor + 1, start_id)
    IN IF ahead # {} THEN Highest(ahead)
       ELSE IF back # {} THEN Highest(back)
       ELSE None

\* ------------------- utils/message_utils.find_latest_message, probe by probe
\* start_id = last_saved_id + 50 if last_saved_id else 1000
start_id(last) == IF last # None THEN last + SearchAhead ELSE SearchFrom

\* max(1, search_start - max_check): where range(search_start, ..., -1) stops
no_floor(start) == start - MaxCheck
back_stop(start) == IF start - MaxCheck > 1 THEN start - MaxCheck ELSE 1

\* await bot.forward_message(chat_id=owner_id, ...) returns the message
Probes(ch, id) ==
    /\ ch \in DOMAIN chanLast
    /\ 1 <= id /\ id <= chanLast[ch] /\ id \notin gone[ch]

\* find_latest_message(bot, channel_id, owner_id, last_saved_id) is called:
\* checked_count = 0, valid_id = None, msg_id = start_id; the calls share
\* nothing, so one is followed at a time
Locate(k, last) ==
    /\ \A h \in HandlerSlots : procs[h].kind # "locate"
    /\ Launch(HandlerSlots,
              [NewProc("locate", "lc_fwd") EXCEPT !.channel = source_channels[k],
                                                  !.arg = last,
                                                  !.message_id = start_id(last)])
    /\ UNCHANGED <<state, rs, storeVars, tgVars, faults, auxVars>>

\* return valid_id / return None
LcReturn(q) == [q EXCEPT !.pc = "lc_ret", !.message_id = 0]

\* after the forward loop: if not valid_id: for msg_id in range(search_start,
\* max(1, search_start - max_check), -1)
LcAfterForward(q) ==
    IF q.old # None THEN LcReturn(q)
    ELSE IF start_id(q.arg) > back_stop(start_id(q.arg))
         THEN [q EXCEPT !.pc = "lc_back", !.message_id = start_id(q.arg)]
         ELSE LcReturn(q)

\* for msg_id in range(start_id, start_id + max_check)
LcForwardNext(q) ==
    IF q.message_id + 1 < start_id(q.arg) + MaxCheck
    THEN [q EXCEPT !.message_id = @ + 1]
    ELSE LcAfterForward(q)

\* one probe of the forward loop: valid_id = msg_id when the message is
\* forwarded, and the search goes on; any error: continue
LcForward(p) ==
    LET q == [procs[p] EXCEPT !.fwd = @ + 1]
    IN /\ Runnable(p) /\ procs[p].pc = "lc_fwd"
       /\ \/ /\ Probes(q.channel, q.message_id)
             /\ SetProc(p, LcForwardNext([q EXCEPT !.old = q.message_id]))
             /\ UNCHANGED faults
          \/ /\ ~Probes(q.channel, q.message_id)
             /\ SetProc(p, LcForwardNext(q))
             /\ UNCHANGED faults
          \/ /\ Probes(q.channel, q.message_id)
             /\ CanFault /\ faults' = faults + 1
             /\ SetProc(p, LcForwardNext(q))
       /\ UNCHANGED <<state, rs, storeVars, tgVars, auxVars>>

\* valid_id = msg_id; break: the first message found going backward is taken
keeps_searching(q) ==
    IF q.message_id - 1 > back_stop(start_id(q.arg))
    THEN [q EXCEPT !.old = q.message_id, !.message_id = @ - 1]
    ELSE LcReturn([q EXCEPT !.old = q.message_id])
found_back(q) == LcReturn([q EXCEPT !.old = q.message_id])

\* the backward loop goes on with msg_id - 1 or ends with nothing found
LcBackNext(q) ==
    IF q.message_id - 1 > back_stop(start_id(q.arg))
    THEN [q EXCEPT !.message_id = @ - 1]
    ELSE LcReturn(q)

\* one probe of the backward loop
LcBack(p) ==
    LET q == [procs[p] EXCEPT !.fwd = @ + 1]
    IN /\ Runnable(p) /\ procs[p].pc = "lc_back"
       /\ \/ /\ Probes(q.channel, q.message_id)
             /\ SetProc(p, found_back(q))
             /\ UNCHANGED faults
          \/ /\ ~Probes(q.channel, q.message_id)
             /\ SetProc(p, LcBackNext(q))
             /\ UNCHANGED faults
          \/ /\ Probes(q.channel, q.message_id)
             /\ CanFault /\ faults' = faults + 1
             /\ SetProc(p, LcBackNext(q))
       /\ UNCHANGED <<state, rs, storeVars, tgVars, auxVars>>

\* the caller has the result
LcRet(p) ==
    /\ Runnable(p) /\ procs[p].kind = "locate" /\ procs[p].pc = "lc_ret"
    /\ SetProc(p, Finished(procs[p]))
    /\ UNCHANGED <<state, rs, storeVars, tgVars, faults, auxVars>>

\* ------------------- utils/bot_state.RunningState: the schedule-driven variant
\* a "HH:MM" string is written as the pair of its hour and its minute;
\* datetime.now().strftime("%H:%M") at minute n of the day
strftime(n) == <<n \div 60, n % 60>>

\* h, m = map(int, time_str.split(':')); return h * 60 + m
time_to_minutes(time_str) == time_str[1] * 60 + time_str[2]

\* _is_time_in_range(current_time, start_time, end_time): a range whose end is
\* before its start passes midnight
closed_range(current_time, start_time, end_time) ==
    LET current_minutes == time_to_minutes(current_time)
        start_minutes == time_to_minutes(start_time)
        end_minutes == time_to_minutes(end_time)
    IN IF end_minutes < start_minutes
       THEN current_minutes >= start_minutes \/ current_minutes <= end_minutes
       ELSE start_minutes <= current_minutes /\ current_minutes <= end_minutes
is_time_in_range(current_time, start_time, end_time) ==
    LET current_minutes == time_to_minutes(current_time)
        start_minutes == time_to_minutes(start_time)
        end_minutes == time_to_minutes(end_time)
    IN IF end_minutes < start_minutes
       THEN current_minutes >= start_minutes \/ current_minutes < end_minutes
       ELSE start_minutes <= current_minutes /\ current_minutes < end_minutes

\* Repository.get_schedules(): the rows of the schedules table, in order
get_schedules == schedules

\* slot_id = f"{channel_id}_{start_time}_{end_time}"
slot_id(row) == <<row.channel_id, row.start_time, row.end_time>>

\* _get_active_channel_info at current_time: the index of the first schedule
\* whose range holds the time, 0 for return None
get_active_channel_info(current_time) ==
    LET active == {i \in DOMAIN get_schedules :
                     is_time_in_range(current_time, get_schedules[i].start_time,
                                      get_schedules[i].end_time)}
    IN IF active = {} THEN 0
       ELSE CHOOSE i \in active : \A j \in active : i <= j

IsSched(p) == procs[p].kind = "sched"

\* asyncio.create_task(self._schedule_check()) in RunningState.__init__:
\* _last_check_date = None, _processed_slots = set()
NewSchedule == NewProc("sched", "sc_top")

\* await asyncio.sleep(60) at the end of an iteration of while True
ScSleep(q) ==
    [NoProc EXCEPT !.kind = "sched", !.pc = "sc_top", !.remaining = 1,
                   !.date = q.date, !.slots = q.slots]

\* the top of the loop: current_date = datetime.now().date(); a date other
\* than _last_check_date clears _processed_slots; then
\* await self._get_active_channel_info(), which awaits get_schedules
ScTop(p) ==
    LET q == procs[p]
    IN /\ Runnable(p) /\ IsSched(p) /\ q.pc = "sc_top" /\ q.remaining = 0
       /\ SetProc(p, IF q.date # clock.day
                     THEN [q EXCEPT !.pc = "sc_active", !.date = clock.day,
                                    !.slots = {}]
                     ELSE [q EXCEPT !.pc = "sc_active"])
       /\ UNCHANGED <<state, rs, storeVars, tgVars, faults, auxVars>>

\* the schedules are there: current_time = datetime.now().strftime("%H:%M");
\* no active schedule, or a slot in _processed_slots: sleep; a new slot:
\* await Repository.get_last_message(channel_id); any error: return None
ScActive(p) ==
    LET q == procs[p]
        i == get_active_channel_info(strftime(clock.minute))
    IN /\ Runnable(p) /\ IsSched(p) /\ q.pc = "sc_active"
       /\ \/ /\ SetProc(p, IF i = 0 THEN ScSleep(q)
                           ELSE IF slot_id(get_schedules[i]) \in q.slots
                                THEN ScSleep(q)
                                ELSE [q EXCEPT !.pc = "sc_last",
                                         !.channel = get_schedules[i].channel_id,
                                         !.slot = slot_id(get_schedules[i])])
             /\ UNCHANGED faults
          \/ /\ CanFault /\ faults' = faults + 1
             /\ SetProc(p, ScSleep(q))
       /\ UNCHANGED <<state, rs, storeVars, tgVars, auxVars>>

\* entry of the variant's forward_and_pin_message(channel_id, message_id)
SpEnter(q, ch, msg) ==
    [q EXCEPT !.pc = "sp_targets", !.channel = ch, !.message_id = msg,
              !.success = FALSE, !.chats = <<>>, !.ci = 0, !.fwd = 0, !.old = 0,
              !.arg = 0]

\* latest_message_id is there: forward_and_pin_message when it is set;
\* without a stored message the slot is marked processed; an error leaves
\* the loop: await asyncio.sleep(10)
ScLast(p) ==
    LET q == procs[p]
        latest_message_id == get_last_message(q.channel)
    IN /\ Runnable(p) /\ IsSched(p) /\ q.pc = "sc_last"
       /\ \/ /\ SetProc(p, IF latest_message_id # None
                           THEN SpEnter(q, q.channel, latest_message_id)
                           ELSE ScSleep([q EXCEPT !.slots = @ \cup {q.slot}]))
             /\ UNCHANGED faults
          \/ /\ CanFault /\ faults' = faults + 1
             /\ SetProc(p, [NoProc EXCEPT !.kind = "sched", !.pc = "sc_backoff",
                                          !.remaining = 1, !.date = q.date,
                                          !.slots = q.slots])
       /\ UNCHANGED <<state, rs, storeVars, tgVars, auxVars>>

\* after the sleep: if not self._schedule_task.cancelled():
\* self._start_schedule_task(), which creates a task only when the current
\* one is done; the current one is the caller, so the coroutine just ends
ScBackoff(p) ==
    LET q == procs[p]
    IN /\ Runnable(p) /\ IsSched(p) /\ q.pc = "sc_backoff" /\ q.remaining = 0
       /\ SetProc(p, [NoProc EXCEPT !.kind = "sched", !.date = q.date,
                                    !.slots = q.slots])
       /\ UNCHANGED <<state, rs, storeVars, tgVars, faults, auxVars>>

\* success = await forward_and_pin_message(...): if success:
\* self._processed_slots.add(slot_id); then the sleep
SpReturn(q, success) ==
    ScSleep(IF success THEN [q EXCEPT !.slots = @ \cup {q.slot}] ELSE q)

\* for chat_id in target_chats: ...; return success
SpLoop(q, i) ==
    IF i > Len(q.chats) THEN SpReturn(q, q.success)
    ELSE [q EXCEPT !.pc = "sp_getpinned", !.ci = i, !.fwd = 0, !.old = 0]

\* target_chats = await Repository.get_target_chats(); if not target_chats:
\* return False; the outer except returns False as well
SpTargets(p) ==
    LET q == procs[p]
    IN /\ Runnable(p) /\ q.pc = "sp_targets"
       /\ \/ /\ SetProc(p, IF get_target_chats = <<>> THEN SpReturn(q, FALSE)
                           ELSE SpLoop([q EXCEPT !.chats = get_target_chats], 1))
             /\ UNCHANGED faults
          \/ /\ CanFault /\ faults' = faults + 1
             /\ SetProc(p, SpReturn(q, FALSE))
       /\ UNCHANGED <<state, rs, storeVars, tgVars, auxVars>>

\* prev_pinned = await Repository.get_pinned_message(str(chat_id)); an error
\* is logged and the loop goes on with the next chat
SpGetPinned(p) ==
    LET q == procs[p]
        d == q.chats[q.ci]
    IN /\ Runnable(p) /\ q.pc = "sp_getpinned"
       /\ \/ /\ SetProc(p, [q EXCEPT !.pc = "sp_forward",
                                     !.old = get_pinned_message(Str(d))])
             /\ UNCHANGED faults
          \/ /\ CanFault /\ faults' = faults + 1
             /\ SetProc(p, SpLoop(q, q.ci + 1))
       /\ UNCHANGED <<state, rs, storeVars, tgVars, auxVars>>

\* "message to forward not found": latest_message_id = await
\* find_latest_message(self.bot, channel_id, owner_id, message_id)
SpLocate(q) ==
    [q EXCEPT !.pc = "lc_fwd", !.arg = q.message_id,
              !.message_id = start_id(q.message_id), !.old = 0, !.fwd = 0]

\* fwd = await self.bot.forward_message(chat_id, channel_id, message_id);
\* any other error is logged and the loop goes on with the next chat
SpForward(p) ==
    LET q == procs[p]
        d == q.chats[q.ci]
    IN /\ Runnable(p) /\ q.pc = "sp_forward"
       /\ \/ /\ Resolves(q.channel, q.message_id)
             /\ chatNext[d] <= MaxMsg
             /\ chatNext' = [chatNext EXCEPT ![d] = @ + 1]
             /\ delivered' = delivered \cup {<<q.slot, d, clock.day>>}
             /\ SetProc(p, [q EXCEPT !.pc = IF q.old # None THEN "sp_unpin"
                                                       ELSE "sp_pin",
                               !.fwd = chatNext[d]])
             /\ UNCHANGED faults
          \/ /\ ~Resolves(q.channel, q.message_id)
             /\ SetProc(p, SpLocate(q))
             /\ UNCHANGED <<chatNext, delivered, faults>>
          \/ /\ CanFault /\ faults' = faults + 1
             /\ SetProc(p, SpLoop(q, q.ci + 1))
             /\ UNCHANGED <<chatNext, delivered>>
       /\ UNCHANGED <<state, rs, storeVars, chatPinned, unpinCalls, chanLast, gone,
                      clock, schedules, pool, callers>>

\* if prev_pinned: try: await unpin_chat_message(chat_id, prev_pinned); an
\* error is logged and the pin follows
SpUnpin(p) ==
    LET q == procs[p]
        d == q.chats[q.ci]
    IN /\ Runnable(p) /\ q.pc = "sp_unpin"
       /\ unpinCalls' = unpinCalls + 1
       /\ SetProc(p, [q EXCEPT !.pc = "sp_pin"])
       /\ \/ /\ chatPinned' = [chatPinned EXCEPT ![d] = @ \ {q.old}]
             /\ UNCHANGED faults
          \/ /\ CanFault /\ faults' = faults + 1
             /\ UNCHANGED chatPinned
       /\ UNCHANGED <<state, rs, storeVars, chatNext, chanLast, gone, auxVars>>

\* await pin_chat_message(chat_id, fwd.message_id); a failed pin still counts:
\* success = True
SpPin(p) ==
    LET q == procs[p]
        d == q.chats[q.ci]
    IN /\ Runnable(p) /\ q.pc = "sp_pin"
       /\ \/ /\ chatPinned' = [chatPinned EXCEPT ![d] = @ \cup {q.fwd}]
             /\ SetProc(p, [q EXCEPT !.pc = "sp_save"])
             /\ UNCHANGED faults
          \/ /\ CanFault /\ faults' = faults + 1
             /\ SetProc(p, SpLoop([q EXCEPT !.success = TRUE], q.ci + 1))
             /\ UNCHANGED chatPinned
       /\ UNCHANGED <<state, rs, storeVars, chatNext, unpinCalls, chanLast, gone,
                      auxVars>>

\* await Repository.save_pinned_message(str(chat_id), fwd.message_id);
\* success = True, in the except branch too
SpSave(p) ==
    LET q == procs[p]
        d == q.chats[q.ci]
    IN /\ Runnable(p) /\ q.pc = "sp_save"
       /\ SetProc(p, SpLoop([q EXCEPT !.success = TRUE], q.ci + 1))
       /\ \/ /\ pinned_messages' = save_pinned_message(pinned_messages, Str(d), q.fwd)
             /\ UNCHANGED faults
          \/ /\ CanFault /\ faults' = faults + 1
             /\ UNCHANGED pinned_messages
       /\ UNCHANGED <<state, rs, config, target_chats, source_channels,
                      last_messages, forward_stats, tgVars, auxVars>>

\* the locator has returned: if latest_message_id and latest_message_id !=
\* message_id: await Repository.save_last_message(channel_id, latest_message_id);
\* else: return False
SpLocated(p) ==
    LET q == procs[p]
    IN /\ Runnable(p) /\ IsSched(p) /\ q.pc = "lc_ret"
       /\ SetProc(p, IF q.old # None /\ q.old # q.arg
                     THEN [q EXCEPT !.pc = "sp_savelast", !.message_id = q.old,
                                    !.old = 0, !.fwd = 0]
                     ELSE SpReturn(q, FALSE))
       /\ UNCHANGED <<state, rs, storeVars, tgVars, faults, auxVars>>

\* INSERT OR REPLACE INTO last_messages: the row takes the id whatever it held
save_last_message(rows, ch, id) == [rows EXCEPT ![ch] = id]

\* save_last_message has written: return await
\* self.forward_and_pin_message(channel_id, latest_message_id);
\* except Exception as find_error: return False
SpSaveLast(p) ==
    LET q == procs[p]
    IN /\ Runnable(p) /\ q.pc = "sp_savelast"
       /\ \/ /\ last_messages' = save_last_message(last_messages, q.channel,
                                                   q.message_id)
             /\ SetProc(p, SpEnter(q, q.channel, q.message_id))
             /\ UNCHANGED faults
          \/ /\ CanFault /\ faults' = faults + 1
             /\ SetProc(p, SpReturn(q, FALSE))
             /\ UNCHANGED last_messages
       /\ UNCHANGED <<state, rs, config, target_chats, source_channels,
                      pinned_messages, forward_stats, tgVars, auxVars>>

\* a post in a source channel while the variant's engine runs:
\* await Repository.save_last_message(chat_id, message.message_id)
LatePost(k) ==
    LET ch == chat_of(source_channels[k])
    IN /\ chanLast[ch] < MaxLate
       /\ chanLast' = [chanLast EXCEPT ![ch] = @ + 1]
       /\ Launch(HandlerSlots, [NewProc("post", "po_store") EXCEPT
                    !.channel = ch, !.message_id = chanLast[ch] + 1])
       /\ UNCHANGED <<state, rs, storeVars, chatNext, chatPinned, unpinCalls,
                      faults, gone, auxVars>>

\* save_last_message has written; the variant's RunningState has
\* auto_forward = False, so the handler ends there
PoStore(p) ==
    LET q == procs[p]
    IN /\ Runnable(p) /\ q.pc = "po_store"
       /\ \/ /\ last_messages' = save_last_message(last_messages, q.channel,
                                                   q.message_id)
             /\ UNCHANGED faults
          \/ /\ CanFault /\ faults' = faults + 1
             /\ UNCHANGED last_messages
       /\ SetProc(p, Finished(q))
       /\ UNCHANGED <<state, rs, config, target_chats, source_channels,
                      pinned_messages, forward_stats, tgVars, auxVars>>

\* the minutes of the day at which the clock is looked at
ClockPoints == {0, 1, 360, 720, 1320, 1439}

\* the next of these minutes, the first one of the next day after the last
NextPoint(m) ==
    LET later == {n \in ClockPoints : n > m}
        first(S) == CHOOSE n \in S : \A k \in S : n <= k
    IN IF later = {} THEN first(ClockPoints) ELSE first(later)

\* a schedule task that is inside one of its sleeps, or has ended
Resting(p) == procs[p].pc \in {"sc_top", "sc_backoff", "done"}

\* time passes up to the next of these minutes: at least a minute, so the
\* sleep of 60 s and the sleep of 10 s are over; a call to the store or to the
\* transport is pending for no more than a minute
ClockTick ==
    LET m == NextPoint(clock.minute)
    IN /\ m > clock.minute \/ clock.day < MaxDay
       /\ \/ (m - clock.minute) % (24 * 60) = 1
          \/ \A p \in PIds : IsSched(p) => Resting(p)
       /\ clock' = [day |-> IF m > clock.minute THEN clock.day ELSE clock.day + 1,
                    minute |-> m]
       /\ procs' = [p \in PIds |-> IF IsSched(p)
                                   THEN [procs[p] EXCEPT !.remaining = 0]
                                   ELSE procs[p]]
       /\ UNCHANGED <<state, rs, storeVars, tgVars, faults, schedules, pool,
                      callers, delivered>>

\* --------------------------------- DatabaseConnectionPool.get_connection
\* everything but the pool and its callers
PoolFrame == <<state, rs, procs, storeVars, tgVars, faults, clock, schedules,
               delivered>>

CallerIds == 1..MaxCallers
Outside == [pc |-> "out", conn |-> 0]

\* connections with in_use False: for conn in cls._pool: if not getattr(conn, 'in_use', True)
FreeConns == {i \in DOMAIN pool : ~pool[i]}

\* setattr(conn, 'in_use', True)
leave_free(ps, i) == ps
mark_in_use(ps, i) == [ps EXCEPT ![i] = TRUE]

\* setattr(conn, 'in_use', True); yield conn: the loop over the WeakSet meets
\* the free connections in no particular order
Take(c) ==
    \E i \in FreeConns :
        /\ pool' = mark_in_use(pool, i)
        /\ callers' = [callers EXCEPT ![c] = [pc |-> "hold", conn |-> i]]

\* async with DatabaseConnectionPool.get_connection(): a free connection is
\* taken at once; otherwise a new one is opened if len(cls._pool) < 5, which
\* suspends at aiosqlite.connect; otherwise the caller sleeps 0.1 s
GetConnection(c) ==
    /\ callers[c].pc = "out"
    /\ IF FreeConns # {} THEN Take(c)
       ELSE /\ callers' = [callers EXCEPT ![c].pc =
                               IF Len(pool) < MaxConnections THEN "connect"
                               ELSE "wait"]
            /\ UNCHANGED pool
    /\ UNCHANGED PoolFrame

\* conn = await aiosqlite.connect(...) returns: setattr(conn, 'in_use', True);
\* cls._pool.add(conn); yield conn
Connected(c) ==
    /\ callers[c].pc = "connect"
    /\ pool' = Append(pool, TRUE)
    /\ callers' = [callers EXCEPT ![c] = [pc |-> "hold", conn |-> Len(pool) + 1]]
    /\ UNCHANGED PoolFrame

\* while True: await asyncio.sleep(0.1); the first free connection is taken
Poll(c) ==
    /\ callers[c].pc = "wait"
    /\ Take(c)
    /\ UNCHANGED PoolFrame

\* the holder leaves the context: finally: setattr(conn, 'in_use', False)
Release(c) ==
    /\ callers[c].pc = "hold"
    /\ pool' = [pool EXCEPT ![callers[c].conn] = FALSE]
    /\ callers' = [callers EXCEPT ![c] = Outside]
    /\ UNCHANGED PoolFrame

\* ----------------------------------------- ForwarderBot.add_channel_submit
\* Config.add_source_channel(channel): the channel goes to the end of the list
add_source_channel(ch) == Append(source_channels, ch)

\* Config.remove_source_channel(channel): the channel leaves the list
remove_source_channel(ch) == SelectSeq(source_channels, LAMBDA c : c # ch)

\* ForwarderBot.find_latest_message(channel_id): ids from max_id downwards,
\* the first that resolves
probe_latest_message(ch) ==
    LET S == Resolving(ch, ProbeFrom - ProbeSpan - 1, ProbeFrom)
    IN IF S = {} THEN None ELSE Highest(S)

\* the bot administers the channel and it is not yet in the list:
\* if self.config.add_source_channel(str(chat.id)):
\*     latest_id = await self.find_latest_message(str(chat.id))
AddChannel(ch) ==
    /\ \A k \in DOMAIN source_channels : source_channels[k] # ch
    /\ source_channels' = add_source_channel(ch)
    /\ Launch(HandlerSlots, [NewProc("addch", "ac_find") EXCEPT !.channel = ch])
    /\ UNCHANGED <<state, rs, config, target_chats, last_messages,
                   pinned_messages, forward_stats, tgVars, faults,
                   auxVars>>

\* if latest_id: await Repository.save_last_message(str(chat.id), latest_id)
AcFound(p) ==
    LET q == procs[p]
        m == probe_latest_message(q.channel)
    IN /\ Runnable(p) /\ q.pc = "ac_find"
       /\ \/ /\ last_messages' = IF m = None THEN last_messages
                                  ELSE [last_messages EXCEPT ![q.channel] = m]
             /\ UNCHANGED faults
          \/ /\ m # None /\ CanFault /\ faults' = faults + 1
             /\ UNCHANGED last_messages
       /\ SetProc(p, Finished(q))
       /\ UNCHANGED <<state, rs, config, target_chats, source_channels,
                      pinned_messages, forward_stats, tgVars, auxVars>>

\* ---------------------------------------------- ForwarderBot.remove_channel
\* if self.config.remove_source_channel(channel): ...; the list is shown again
RemoveChannel(ch) ==
    /\ \E k \in DOMAIN source_channels : source_channels[k] = ch
    /\ source_channels' = remove_source_channel(ch)
    /\ UNCHANGED <<state, rs, procs, config, target_chats, last_messages,
                   pinned_messages, forward_stats, tgVars, faults,
                   auxVars>>

\* ------------------------------------------------------------- environment
\* a post of a source channel is deleted: forwarding it now fails with
\* "message to forward not found"
DeletePost(ch, m) ==
    /\ ch \in DOMAIN gone
    /\ m \in 1..chanLast[ch] /\ m \notin gone[ch]
    /\ gone' = [gone EXCEPT ![ch] = @ \cup {m}]
    /\ UNCHANGED <<state, rs, procs, storeVars, chatNext, chatPinned, unpinCalls,
                   chanLast, faults, auxVars>>

\* ------------------------------------------------------------------ clock
\* a coroutine inside asyncio.sleep whose cancellation is not pending
Sleeping(p) == Runnable(p) /\ procs[p].pc \in {"r_sleep", "r_backoff"}
Sleepers == {p \in PIds : Sleeping(p) /\ procs[p].remaining > 0}

\* dt seconds pass: every pending sleep has dt seconds less to go; time never
\* passes beyond the end of a pending sleep
Tick(dt) ==
    /\ Sleepers # {}
    /\ \A p \in PIds : Sleeping(p) => procs[p].remaining >= dt
    /\ procs' = [p \in PIds |-> IF Sleeping(p)
                                THEN [procs[p] EXCEPT !.remaining = @ - dt]
                                ELSE procs[p]]
    /\ UNCHANGED <<state, rs, storeVars, tgVars, faults, auxVars>>

\* to the end of the next sleep, or one step of the clock
TickTargets == {TickStep} \cup {procs[p].remaining : p \in Sleepers}

\* ------------------------------------------------------------------- Init
Channels == <<"10", "20">>
ChannelSet == {Channels[i] : i \in DOMAIN Channels}

\* no schedule row, no connection opened, no get_connection call under way,
\* nothing forwarded by a schedule task
InitAux ==
    /\ clock = [day |-> 1, minute |-> 0]
    /\ schedules = <<>>
    /\ pool = <<>>
    /\ callers = [c \in CallerIds |-> Outside]
    /\ delivered = {}

\* the process has just started on a store that earlier runs may have filled
InitStore(targets) ==
    /\ config = None
    /\ target_chats = targets
    /\ source_channels = Channels
    /\ last_messages = [c \in ChannelSet |-> IF c = Channels[1] THEN 1 ELSE None]
    /\ chanLast = last_messages
    /\ pinned_messages = {}
    /\ forward_stats = <<>>
    /\ chatNext = [d \in Chats |-> 1]
    /\ chatPinned = [d \in Chats |-> {}]
    /\ unpinCalls = 0
    /\ InitAux
    /\ gone = [c \in ChannelSet |-> {}]

\* BotContext.__init__: self.state = IdleState(self); no store or transport failures
Init ==
    /\ state = Idle
    /\ rs = <<>>
    /\ procs = [h \in 1..NumSlots |-> NoProc]
    /\ faults = MaxFaults
    /\ InitStore(Chats)

\* the engine as IdleState.start leaves it on an empty config table: Running,
\* its rotation task created and not yet run; one registered chat; store and
\* transport calls may fail
InitRunning ==
    /\ state = 1
    /\ rs = <<[interval |-> DefaultInterval, task |-> NumSlots + 1, index |-> -1]>>
    /\ procs = [h \in 1..NumSlots |-> NoProc] \o <<NewTask(1)>>
    /\ faults = 0
    /\ InitStore({1})

\* the engine before any start: Idle, both chats registered; store and
\* transport calls may fail
InitReplace ==
    /\ state = Idle
    /\ rs = <<>>
    /\ procs = [h \in 1..NumSlots |-> NoProc]
    /\ faults = 0
    /\ InitStore(Chats)

\* a feed list of three channels
Feeds == <<"10", "20", "30">>
FeedSet == {Feeds[i] : i \in DOMAIN Feeds}

\* the engine as IdleState.start leaves it, on its own: Running with three
\* source channels, each with or without a last message, and any of the chats
\* registered, its rotation task created and not yet run; store and transport
\* calls may fail
InitRotate ==
    /\ state = 1
    /\ rs = <<[interval |-> DefaultInterval, task |-> NumSlots + 1, index |-> -1]>>
    /\ procs = [h \in 1..NumSlots |-> NoProc] \o <<NewTask(1)>>
    /\ faults = 0
    /\ config = None
    /\ target_chats \in SUBSET Chats
    /\ source_channels = Feeds
    /\ last_messages \in [FeedSet -> {None, 1}]
    /\ chanLast = last_messages
    /\ pinned_messages = {}
    /\ forward_stats = <<>>
    /\ chatNext = [d \in Chats |-> 1]
    /\ chatPinned = [d \in Chats |-> {}]
    /\ unpinCalls = 0
    /\ InitAux
    /\ gone = [c \in FeedSet |-> {}]

\* steps of forward_latest_messages and forward_and_pin_message
PubStep(p) ==
    \/ FpTargets(p) \/ FpGetChat(p) \/ FpForward(p) \/ FpGetPinned(p)
    \/ FpUnpin(p) \/ FpPin(p) \/ FpSave(p) \/ FpLog(p)
    \/ FlTargets(p) \/ FlLast(p)

\* steps of _channel_rotation
RotStep(p) ==
    \/ RotStart(p) \/ RotWake(p) \/ RotLast(p)

\* the engine life cycle: start, stop, interval updates and the rotation task
Next ==
    \/ \E p \in PIds : PubStep(p)
    \/ \E p \in PIds : RotStep(p)
    \/ \E p \in PIds : DeliverCancel(p)
    \/ \E p \in PIds : TgPrestart(p)
    \/ \E p \in PIds : StCfg(p)
    \/ \E p \in PIds : SiSet(p)
    \/ ToggleStart
    \/ ToggleStop
    \/ \E i \in IntervalChoices : SetInterval(i)
    \/ \E t \in TickTargets : Tick(t)

Spec == Init /\ [][Next]_vars

\* a Running engine beside the feed-update and forward-now handlers
NextPublish ==
    \/ \E p \in PIds : PubStep(p)
    \/ \E p \in PIds : RotStep(p)
    \/ \E p \in PIds : RotBackoffEnd(p)
    \/ \E p \in PIds : PoSave(p)
    \/ ForwardNow
    \/ \E k \in DOMAIN source_channels : ChannelPost(k)
    \/ \E t \in TickTargets : Tick(t)

SpecPublish == InitRunning /\ [][NextPublish]_vars

\* publish operations alone: forward-now invocations on an engine that is not
\* rotating, each publishing the newest item of the feed to every chat
NextReplace ==
    \/ \E p \in PIds : PubStep(p)
    \/ ForwardNow

SpecReplace == InitReplace /\ [][NextReplace]_vars

\* the same engine with one chat registered, a last message for the first
\* source channel only, and no store or transport failures
InitFeeds ==
    /\ state = 1
    /\ rs = <<[interval |-> DefaultInterval, task |-> NumSlots + 1, index |-> -1]>>
    /\ procs = [h \in 1..NumSlots |-> NoProc] \o <<NewTask(1)>>
    /\ faults = MaxFaults
    /\ config = None
    /\ target_chats = {1}
    /\ source_channels = Feeds
    /\ last_messages = [c \in FeedSet |-> IF c = Feeds[1] THEN 1 ELSE None]
    /\ chanLast = last_messages
    /\ pinned_messages = {}
    /\ forward_stats = <<>>
    /\ chatNext = [d \in Chats |-> 1]
    /\ chatPinned = [d \in Chats |-> {}]
    /\ unpinCalls = 0
    /\ InitAux
    /\ gone = [c \in FeedSet |-> {}]

\* the engine before any start, with one chat registered and two source
\* channels, the second configured by its username; no post has been seen yet;
\* no store or transport failures
InitIngest ==
    /\ state = Idle
    /\ rs = <<>>
    /\ procs = [h \in 1..NumSlots |-> NoProc]
    /\ faults = MaxFaults
    /\ config = None
    /\ target_chats = {1}
    /\ source_channels = <<"10", NamedFeed>>
    /\ last_messages = [c \in {"10", NamedChat} |-> None]
    /\ chanLast = last_messages
    /\ pinned_messages = {}
    /\ forward_stats = <<>>
    /\ chatNext = [d \in Chats |-> 1]
    /\ chatPinned = [d \in Chats |-> {}]
    /\ unpinCalls = 0
    /\ InitAux
    /\ gone = [c \in {"10", NamedChat} |-> {}]

\* an Idle engine with two source channels, one configured by its username,
\* and any of the chats registered; it was never started, or it was started and
\* stopped and its rotation task has ended; the save of a post may fail
InitIdle ==
    /\ state = Idle
    /\ \/ /\ rs = <<>>
          /\ procs = [h \in 1..NumSlots |-> NoProc]
       \/ /\ rs = <<[interval |-> DefaultInterval, task |-> NumSlots + 1, index |-> -1]>>
          /\ procs = [h \in 1..NumSlots |-> NoProc] \o <<Finished(NewTask(1))>>
    /\ faults = 0
    /\ config = None
    /\ target_chats \in SUBSET Chats
    /\ source_channels = <<"10", NamedFeed>>
    /\ last_messages = [c \in {"10", NamedChat} |-> None]
    /\ chanLast = last_messages
    /\ pinned_messages = {}
    /\ forward_stats = <<>>
    /\ chatNext = [d \in Chats |-> 1]
    /\ chatPinned = [d \in Chats |-> {}]
    /\ unpinCalls = 0
    /\ InitAux
    /\ gone = [c \in {"10", NamedChat} |-> {}]

\* the rotation task on its own: no handler runs beside it
NextRotate ==
    \/ \E p \in PIds : PubStep(p)
    \/ \E p \in PIds : RotStep(p)
    \/ \E p \in PIds : RotBackoffEnd(p)
    \/ \E t \in TickTargets : Tick(t)

SpecRotate == InitRotate /\ [][NextRotate]_vars

\* the rotation task beside the handlers that add and remove source channels
NextFeeds ==
    \/ \E p \in PIds : PubStep(p)
    \/ \E p \in PIds : RotStep(p)
    \/ \E p \in PIds : AcFound(p)
    \/ \E ch \in FeedSet : AddChannel(ch)
    \/ \E ch \in FeedSet : RemoveChannel(ch)
    \/ \E t \in TickTargets : Tick(t)

SpecFeeds == InitFeeds /\ [][NextFeeds]_vars

\* the channel-post handler beside start and stop: the rotation tasks are
\* created and cancelled, and are not resumed before they are
NextIngest ==
    \/ \E p \in PIds : PubStep(p)
    \/ \E p \in PIds : DeliverCancel(p)
    \/ \E p \in PIds : TgPrestart(p)
    \/ \E p \in PIds : StCfg(p)
    \/ \E p \in PIds : PoSave(p)
    \/ ToggleStart
    \/ ToggleStop
    \/ \E k \in DOMAIN source_channels : ChannelPost(k)

SpecIngest == InitIngest /\ [][NextIngest]_vars

\* manual entries of the interval beside start and stop: the rotation tasks
\* are created and cancelled, and are not resumed before they are
NextInterval ==
    \/ \E m \in MinuteInputs : SubmitInterval(m)
    \/ \E p \in PIds : SiSet(p)
    \/ \E p \in PIds : DeliverCancel(p)
    \/ \E p \in PIds : TgPrestart(p)
    \/ \E p \in PIds : StCfg(p)
    \/ ToggleStart
    \/ ToggleStop

SpecInterval == Init /\ [][NextInterval]_vars

\* start() and stop() called in any state of the engine
NextEngine ==
    \/ CallStart
    \/ CallStop
    \/ \E p \in PIds : CxStart(p)
    \/ \E p \in PIds : CxStop(p)
    \/ \E p \in PIds : CxRet(p)
    \/ \E p \in PIds : StCfg(p)
    \/ \E p \in PIds : DeliverCancel(p)
    \/ \E i \in IntervalChoices : SetInterval(i)
    \/ \E p \in PIds : SiSet(p)

SpecEngine == Init /\ [][NextEngine]_vars

\* the rotating engine while chats are removed by the admin or leave
NextRemove ==
    \/ \E p \in PIds : PubStep(p)
    \/ \E p \in PIds : RotStep(p)
    \/ \E p \in PIds : RotBackoffEnd(p)
    \/ \E t \in TickTargets : Tick(t)
    \/ \E p \in PIds : RemoveStep(p)
    \/ \E d \in Chats : RemoveChat(d)
    \/ \E d \in Chats : ChatLeft(d)

SpecRemove == InitRunning /\ [][NextRemove]_vars

\* the rotating engine beside removals, membership events and the pin test;
\* both chats registered, no call fails
InitMembers ==
    /\ state = 1
    /\ rs = <<[interval |-> DefaultInterval, task |-> NumSlots + 1, index |-> -1]>>
    /\ procs = [h \in 1..NumSlots |-> NoProc] \o <<NewTask(1)>>
    /\ faults = MaxFaults
    /\ InitStore(Chats)

NextMembers ==
    \/ \E p \in PIds : PubStep(p)
    \/ \E p \in PIds : RotStep(p)
    \/ \E t \in TickTargets : Tick(t)
    \/ \E p \in PIds : RemoveStep(p)
    \/ \E p \in PIds : TestStep(p)
    \/ \E d \in Chats : RemoveChat(d)
    \/ \E d \in Chats : ChatLeft(d)
    \/ \E d \in Chats : TestPin(d)

SpecMembers == InitMembers /\ [][NextMembers]_vars

\* two source channels that are registered chats themselves, each with a
\* last message; the engine Idle, both chats registered; store and transport
\* calls may fail
SelfFeeds == <<"2", "1">>
SelfFeedSet == {SelfFeeds[i] : i \in DOMAIN SelfFeeds}

InitSelf ==
    /\ state = Idle
    /\ rs = <<>>
    /\ procs = [h \in 1..NumSlots |-> NoProc]
    /\ faults = 0
    /\ config = None
    /\ target_chats = Chats
    /\ source_channels = SelfFeeds
    /\ last_messages = [c \in SelfFeedSet |-> 1]
    /\ chanLast = last_messages
    /\ pinned_messages = {}
    /\ forward_stats = <<>>
    /\ chatNext = [d \in Chats |-> 1]
    /\ chatPinned = [d \in Chats |-> {}]
    /\ unpinCalls = 0
    /\ InitAux
    /\ gone = [c \in SelfFeedSet |-> {}]

\* forward-now invocations publishing from source channels that are chats
NextSelf ==
    \/ \E p \in PIds : PubStep(p)
    \/ ForwardNow

SpecSelf == InitSelf /\ [][NextSelf]_vars

\* a channel among the registered chats: chat 3 is of type channel; the engine
\* Idle; store and transport calls may fail
ChannelChat == 3
AllChats == Chats \cup {ChannelChat}

InitMixed ==
    /\ state = Idle
    /\ rs = <<>>
    /\ procs = [h \in 1..NumSlots |-> NoProc]
    /\ faults = 0
    /\ config = None
    /\ target_chats \in {T \in SUBSET AllChats : ChannelChat \in T}
    /\ source_channels = Channels
    /\ last_messages = [c \in ChannelSet |-> IF c = Channels[1] THEN 1 ELSE None]
    /\ chanLast = last_messages
    /\ pinned_messages = {}
    /\ forward_stats = <<>>
    /\ chatNext = [d \in AllChats |-> 1]
    /\ chatPinned = [d \in AllChats |-> {}]
    /\ unpinCalls = 0
    /\ InitAux
    /\ gone = [c \in ChannelSet |-> {}]

\* forward-now invocations publishing to chats one of which is a channel
NextMixed ==
    \/ \E p \in PIds : PubStep(p)
    \/ ForwardNow

SpecMixed == InitMixed /\ [][NextMixed]_vars

\* the locator on its own: channel 10 holds any of a few posts around the
\* windows of the hints; a probe of an existing post may fail
PostIds == {1, 40, 100, 200, 250, 900, 1100}
Hints == {None, 1, 200}

InitLocate ==
    /\ state = Idle
    /\ rs = <<>>
    /\ procs = [h \in 1..NumSlots |-> NoProc]
    /\ faults = 0
    /\ config = None
    /\ target_chats = {}
    /\ source_channels = <<"10">>
    /\ last_messages = [c \in {"10"} |-> None]
    /\ \E R \in SUBSET PostIds :
          /\ chanLast = [c \in {"10"} |-> IF R = {} THEN None ELSE Highest(R)]
          /\ gone = [c \in {"10"} |-> (1..chanLast[c]) \ R]
    /\ pinned_messages = {}
    /\ forward_stats = <<>>
    /\ chatNext = [d \in Chats |-> 1]
    /\ chatPinned = [d \in Chats |-> {}]
    /\ unpinCalls = 0
    /\ InitAux

NextLocate ==
    \/ \E k \in DOMAIN source_channels, h \in Hints : Locate(k, h)
    \/ \E p \in PIds : LcForward(p)
    \/ \E p \in PIds : LcBack(p)
    \/ \E p \in PIds : LcRet(p)

SpecLocate == InitLocate /\ [][NextLocate]_vars

\* ------------------------------------------------ the schedule task alone
\* start and end times of the schedule rows
SlotTimes == {<<0, 0>>, <<6, 0>>, <<22, 0>>}
ScheduleRows(ch) ==
    {[channel_id |-> ch, start_time |-> s, end_time |-> e] :
        s \in SlotTimes, e \in SlotTimes}
\* a schedule for the first channel, or one for each channel
ScheduleTables ==
    {<<r>> : r \in ScheduleRows(Channels[1])}
    \cup {<<r, t>> : r \in ScheduleRows(Channels[1]), t \in ScheduleRows(Channels[2])}

\* the variant's engine as IdleState.start leaves it: Running, the schedule
\* task created and not yet run (_last_check_date and _processed_slots are
\* kept with the task, the only code that uses them); one registered chat, a
\* stored post for the first channel only, any of the schedule tables, any
\* time of the first day
InitSchedule ==
    /\ state = 1
    /\ rs = <<[interval |-> DefaultInterval, task |-> NumSlots + 1, index |-> -1]>>
    /\ procs = [h \in 1..NumSlots |-> NoProc] \o <<NewSchedule>>
    /\ faults = 0
    /\ config = None
    /\ target_chats = {1}
    /\ source_channels = Channels
    /\ last_messages = [c \in ChannelSet |-> IF c = Channels[1] THEN 1 ELSE None]
    /\ chanLast = last_messages
    /\ pinned_messages = {}
    /\ forward_stats = <<>>
    /\ chatNext = [d \in Chats |-> 1]
    /\ chatPinned = [d \in Chats |-> {}]
    /\ unpinCalls = 0
    /\ gone = [c \in ChannelSet |-> {}]
    /\ clock \in {[day |-> 1, minute |-> m] : m \in ClockPoints}
    /\ schedules \in ScheduleTables
    /\ pool = <<>>
    /\ callers = [c \in CallerIds |-> Outside]
    /\ delivered = {}

NextSchedule ==
    \/ \E p \in PIds : ScTop(p)
    \/ \E p \in PIds : ScActive(p)
    \/ \E p \in PIds : ScLast(p)
    \/ \E p \in PIds : ScBackoff(p)
    \/ \E p \in PIds : SpTargets(p)
    \/ \E p \in PIds : SpGetPinned(p)
    \/ \E p \in PIds : SpForward(p)
    \/ \E p \in PIds : SpUnpin(p)
    \/ \E p \in PIds : SpPin(p)
    \/ \E p \in PIds : SpSave(p)
    \/ ClockTick

SpecSchedule == InitSchedule /\ [][NextSchedule]_vars

\* ------------------------------ the stale-item recovery beside ingestion
\* the variant's engine just started at midnight with a schedule for the first
\* channel; posts arrive and are deleted while the task publishes; no call fails
InitRecover ==
    /\ state = 1
    /\ rs = <<[interval |-> DefaultInterval, task |-> NumSlots + 1, index |-> -1]>>
    /\ procs = [h \in 1..NumSlots |-> NoProc] \o <<NewSchedule>>
    /\ faults = MaxFaults
    /\ config = None
    /\ target_chats = {1}
    /\ source_channels = Channels
    /\ last_messages = [c \in ChannelSet |-> IF c = Channels[1] THEN 1 ELSE None]
    /\ chanLast = last_messages
    /\ pinned_messages = {}
    /\ forward_stats = <<>>
    /\ chatNext = [d \in Chats |-> 1]
    /\ chatPinned = [d \in Chats |-> {}]
    /\ unpinCalls = 0
    /\ gone = [c \in ChannelSet |-> {}]
    /\ clock = [day |-> 1, minute |-> 0]
    /\ schedules = <<[channel_id |-> Channels[1], start_time |-> <<0, 0>>,
                      end_time |-> <<6, 0>>]>>
    /\ pool = <<>>
    /\ callers = [c \in CallerIds |-> Outside]
    /\ delivered = {}

NextRecover ==
    \/ \E p \in PIds : ScTop(p)
    \/ \E p \in PIds : ScActive(p)
    \/ \E p \in PIds : ScLast(p)
    \/ \E p \in PIds : SpTargets(p)
    \/ \E p \in PIds : SpGetPinned(p)
    \/ \E p \in PIds : SpForward(p)
    \/ \E p \in PIds : LcForward(p)
    \/ \E p \in PIds : LcBack(p)
    \/ \E p \in PIds : SpLocated(p)
    \/ \E p \in PIds : SpSaveLast(p)
    \/ \E p \in PIds : SpPin(p)
    \/ \E p \in PIds : SpSave(p)
    \/ LatePost(1)
    \/ \E p \in PIds : PoStore(p)
    \/ \E m \in 1..MaxLate : DeletePost(Channels[1], m)

SpecRecover == InitRecover /\ [][NextRecover]_vars

\* the connection pool on its own: nothing opened yet, every caller outside
InitPool ==
    /\ state = Idle
    /\ rs = <<>>
    /\ procs = [h \in 1..NumSlots |-> NoProc]
    /\ faults = MaxFaults
    /\ InitStore({})

NextPool ==
    \/ \E c \in CallerIds : GetConnection(c)
    \/ \E c \in CallerIds : Connected(c)
    \/ \E c \in CallerIds : Poll(c)
    \/ \E c \in CallerIds : Release(c)

SpecPool == InitPool /\ [][NextPool]_vars

\* the channel-post handler on an engine that is never started
NextIdle ==
    \/ \E p \in PIds : PoSave(p)
    \/ \E k \in DOMAIN source_channels : ChannelPost(k)

SpecIdle == InitIdle /\ [][NextIdle]_vars

\* publish operations on feeds whose posts come and go: forward-now
\* invocations beside the channel-post handler and deletions in the channels
NextStale ==
    \/ \E p \in PIds : PubStep(p)
    \/ \E p \in PIds : PoSave(p)
    \/ ForwardNow
    \/ \E k \in DOMAIN source_channels : ChannelPost(k)
    \/ \E ch \in ChannelSet, m \in 1..MaxPost : DeletePost(ch, m)

SpecStale == InitReplace /\ [][NextStale]_vars

\* ================================================================= claims
LiveIn(ps, p) == ps[p].kind = "rot" /\ ps[p].pc # "done" /\ ~ps[p].cancelReq
LiveOf(ps, r) == {p \in DOMAIN ps : LiveIn(ps, p) /\ ps[p].owner = r}

\* pcs of a rotation step: LastSeenItem has been asked for, publishAndReplace
\* has not returned
StepPcs == {"fl_last", "r_last", "fp_targets", "fp_getchat", "fp_forward",
            "fp_getpinned", "fp_unpin", "fp_pin", "fp_save", "fp_log"}

\* pcs at which the item has been delivered to the destination and the
\* destination's PublishedItem is not yet written
HalfPcs == {"fp_getpinned", "fp_unpin", "fp_pin", "fp_save"}

\* the step in which handler p returns from set_config and applies the interval
SiSetStep(p) ==
    /\ p \in PIds /\ procs[p].pc = "si_set"
    /\ procs'[p].pc # "si_set" /\ faults' = faults

\* C1: after two start() calls on an Idle engine, also interleaved at the
\* Store read of IdleState.start, at most one rotation task is live and every
\* live task belongs to the RunningState the engine holds.
C1_OneLiveTask ==
    /\ Cardinality(LiveTasks) <= 1
    /\ \A p \in LiveTasks : procs[p].owner = state

\* C2: updateInterval(new) on a Running engine leaves it Running with exactly
\* one live rotation task, which uses the new interval.
C2_UpdateKeepsOneLiveTask ==
    [][\A p \in PIds :
         (SiSetStep(p) /\ IsRunning(state))
           => /\ state' = state
              /\ Cardinality(LiveOf(procs', state)) = 1
              /\ rs'[state].interval = procs[p].arg]_vars

\* C3: when the rotation task of the Running state has hit an unexpected error
\* and its 10-second backoff is over, a live rotation task exists again.
C3_RestartedAfterBackoff ==
    [][\A p \in PIds :
         (/\ IsTask(p) /\ Runnable(p) /\ procs[p].pc = "r_backoff"
          /\ procs'[p].pc = "done" /\ state = procs[p].owner)
           => LiveOf(procs', state) # {}]_vars

\* C4: every destination holds at most one pinned item at any time, after any
\* sequence of publishes, also when a call of a publish fails.
C4_AtMostOnePinned ==
    \A d \in Chats : Cardinality(chatPinned[d]) <= 1

\* C5: the Store holds at most one PublishedItem record per destination, after
\* any sequence of publishes, failed ones included.
C5_OneRecordPerDestination ==
    \A d \in Chats : Cardinality({row \in pinned_messages : row[1] = Str(d)}) <= 1

\* a publish has written the record of a destination that already had one,
\* after an earlier call has failed
C5_Witness ==
    \E p \in PIds :
        /\ procs[p].pc = "fp_log" /\ procs[p].old # None
        /\ <<Str(procs[p].chats[procs[p].ci]), procs[p].fwd>> \in pinned_messages
        /\ faults > 0

\* C6: two rotation steps (read LastSeenItem, then publishAndReplace) are never
\* in flight at the same time.
C6_OneStepInFlight ==
    Cardinality({p \in PIds : /\ Runnable(p)
                              /\ procs[p].kind \in {"rot", "fwdnow"}
                              /\ procs[p].pc \in StepPcs}) <= 1

\* C7: a rotation task never exits between the delivery of an item to a
\* destination and the write of that destination's PublishedItem.
C7_NoExitMidDestination ==
    [][\A p \in PIds :
         (IsTask(p) /\ procs[p].pc \in HalfPcs) => procs'[p].pc # "done"]_vars

\* C8: stop() on a Running engine makes an unpin call for the PublishedItem of
\* every registered destination and leaves the engine Idle.
C8_StopUnpinsEveryDestination ==
    [][(IsRunning(state) /\ state' = Idle)
         => unpinCalls' >= unpinCalls +
              Cardinality({d \in target_chats : get_pinned_message(Str(d)) # None})]_vars

\* C9: while the engine is Idle no rotation task is live.
C9_IdleHasNoLiveTask ==
    state = Idle => LiveTasks = {}

\* C10: after updateInterval(new) while the rotation task sleeps, the task of
\* the Running state sleeps with new seconds to go.
C10_NextPublishAfterNewInterval ==
    [][\A p \in PIds :
         (/\ SiSetStep(p) /\ IsRunning(state)
          /\ \E t \in LiveOf(procs, state) : procs[t].pc = "r_sleep")
           => \E t \in LiveOf(procs', state) :
                 /\ procs'[t].pc = "r_sleep"
                 /\ procs'[t].remaining = procs[p].arg]_vars

\* awaits of find_latest_message inside forward_and_pin_message: the except
\* clause of the per-chat try block only logs, it awaits nothing
LocatePcs == {}

\* the step in which the forward_message call of coroutine p fails because the
\* message no longer resolves
StaleStep(p) ==
    /\ p \in PIds /\ Runnable(p) /\ procs[p].pc = "fp_forward"
    /\ ~Resolves(procs[p].channel, procs[p].message_id)
    /\ procs'[p] # procs[p] /\ faults' = faults

\* C11: a publishAndReplace call whose delivery fails because the item no
\* longer resolves invokes the Item Locator: after the failed delivery the
\* call awaits the locator.
C11_StaleInvokesLocator ==
    [][\A p \in PIds : StaleStep(p) => procs'[p].pc \in LocatePcs]_vars

\* C12: when a delivery fails because the item no longer resolves and the
\* locator returns a new id, the call goes on only with that id stored as the
\* feed's LastSeenItem and as the id it delivers.
C12_LocatedIdStoredAndRetried ==
    [][\A p \in PIds :
         LET ch == procs[p].channel
             m == procs[p].message_id
             found == find_latest_message(ch, m)
         IN (StaleStep(p) /\ found # None /\ found # m)
              => \/ procs'[p].pc \in LocatePcs
                 \/ /\ last_messages'[ch] = found
                    /\ procs'[p].message_id = found]_vars

\* C13: when a delivery fails because the item no longer resolves and the
\* locator returns None, the call reports failure (its result is false) and
\* the feed's LastSeenItem is unchanged.
C13_NothingLocatedReportsFailure ==
    [][\A p \in PIds :
         LET ch == procs[p].channel
         IN (StaleStep(p) /\ find_latest_message(ch, procs[p].message_id) = None)
              => /\ ~procs[p].success
                 /\ last_messages'[ch] = last_messages[ch]]_vars

\* pcs at which forward_and_pin_message is handling one chat of target_chats
DestPcs == {"fp_getchat", "fp_forward", "fp_getpinned", "fp_unpin", "fp_pin",
            "fp_save", "fp_log"}

\* coroutine p ends its handling of the chat it is at
LeavesDestination(p) ==
    procs'[p].pc \notin DestPcs \/ procs'[p].ci # procs[p].ci

\* C14: when the recorded item of a feed is stale and the locator finds
\* another item, the call leaves the destination only with the located item
\* published there: a ForwardLogEntry for the located id, and the
\* destination's PublishedItem pinned.
C14_LocatedItemPublished ==
    [][\A p \in PIds :
         LET ch == procs[p].channel
             m == procs[p].message_id
             d == procs[p].chats[procs[p].ci]
             found == find_latest_message(ch, m)
         IN (StaleStep(p) /\ found # None /\ found # m /\ LeavesDestination(p))
              => /\ \E i \in DOMAIN forward_stats' : forward_stats'[i] = found
                 /\ \E row \in pinned_messages' :
                       row[1] = Str(d) /\ row[2] \in chatPinned'[d]]_vars

\* the step in which forward_and_pin_message returns to its caller
CallReturns(p) ==
    /\ p \in PIds /\ Runnable(p)
    /\ procs[p].pc \in DestPcs /\ procs'[p].pc \notin DestPcs

\* the value that return gives: success as the returning step leaves it
Returned(p) ==
    procs[p].success \/ (procs[p].pc = "fp_log" /\ forward_stats' # forward_stats)

\* C15: publishAndReplace returns true when a destination received the item
\* during the call: a call whose last destination received it returns true.
C15_TrueWhenDelivered ==
    [][\A p \in PIds : (CallReturns(p) /\ procs[p].fwd # None) => Returned(p)]_vars

\* awaits of the delivery, unpin and pin calls of the Bot API
ErrPcs == {"fp_forward", "fp_unpin", "fp_pin"}

\* target_chats entries after the one coroutine p is at that are not the
\* source channel itself
Remaining(p) ==
    {i \in (procs[p].ci + 1)..Len(procs[p].chats) :
        Str(procs[p].chats[i]) # procs[p].channel}

\* C16: a delivery, unpin or pin error at one destination does not abort the
\* rotation task and skips no remaining destination: the call stays in its
\* chat loop, at the same destination or at the next remaining one.
C16_ErrorIsolatedToDestination ==
    [][\A p \in PIds :
         (/\ Runnable(p) /\ procs[p].pc \in ErrPcs
          /\ procs'[p] # procs[p]
          /\ (faults' = faults + 1 \/ StaleStep(p)))
           => /\ procs'[p].pc \notin {"r_backoff", "done"} \/ ~IsTask(p)
              /\ Remaining(p) # {}
                   => /\ procs'[p].pc \in DestPcs
                      /\ procs'[p].chats = procs[p].chats
                      /\ procs'[p].ci \in {procs[p].ci} \cup Remaining(p)
                      /\ \A i \in Remaining(p) : procs'[p].ci <= i]_vars

\* after an error at the first chat, in which nothing was delivered, the
\* rotation task has delivered to the second chat
C16_Witness ==
    \E p \in PIds :
        /\ IsTask(p) /\ Runnable(p) /\ faults > 0
        /\ chatNext[1] = 1 /\ chatNext[2] > 1
\* C17: publishAndReplace called while no destination is registered returns
\* false, makes no delivery call and performs no Store write: when the read of
\* target_chats answers with no row, the call returns at once to its caller
\* with success still False, and the transport and every table are unchanged.
C17_NoDestinationNoEffect ==
    [][\A p \in PIds :
         (/\ Runnable(p) /\ procs[p].pc = "fp_targets" /\ target_chats = {}
          /\ procs'[p] # procs[p] /\ faults' = faults)
           => /\ procs'[p] = Return(procs[p])
              /\ ~procs[p].success
              /\ UNCHANGED <<storeVars, tgVars, auxVars>>]_vars

\* the rotation task is back asleep after a step on a channel with a last
\* message, no call having failed, with no chat registered and nothing
\* forwarded anywhere
C17_Witness ==
    /\ target_chats = {} /\ faults = 0
    /\ \E o \in DOMAIN rs :
          /\ rs[o].index >= 0
          /\ last_messages[source_channels[rs[o].index + 1]] # None
          /\ procs[rs[o].task].pc = "r_sleep"
    /\ \A d \in Chats : chatNext[d] = 1
    /\ forward_stats = <<>>
\* the rotation task p wakes from its interval sleep and selects a channel
Selects(p) ==
    /\ p \in PIds /\ IsTask(p) /\ Runnable(p)
    /\ procs[p].pc = "r_sleep" /\ procs'[p].pc = "r_last"

\* C18: with the feed list [A, B, C] the rotation steps of a Running engine
\* select A, B, C, A, ... from index 0: the engine starts one before index 0,
\* each step selects the feed one past the previous step's, modulo 3, and reads
\* and publishes that feed, and nothing between two steps moves the index,
\* whatever the previous step published.
C18_RoundRobinOrder ==
    /\ \A o \in DOMAIN rs : rs[o].index = -1
    /\ [][\A p \in PIds :
            /\ Selects(p)
                 => LET o == procs[p].owner
                    IN /\ rs'[o].index = (rs[o].index + 1) % 3
                       /\ procs'[p].channel = Feeds[rs'[o].index + 1]
            /\ ~(\E t \in PIds : Selects(t)) => rs' = rs
            /\ (IsTask(p) /\ procs[p].pc = "r_last" /\ procs'[p].pc = "fp_targets")
                 => /\ procs'[p].channel = Feeds[rs[procs[p].owner].index + 1]
                    /\ procs'[p].message_id = last_messages[procs'[p].channel]]_vars

\* the engine is back at the first feed after a full round in which one step
\* published and the others found no last message: only the second or third
\* feed has a last message, it was forwarded on entry and once more in its turn
C18_Witness ==
    /\ target_chats = {1} /\ faults = 0
    /\ last_messages[Feeds[1]] = None
    /\ chatNext[1] = 3
    /\ \E o \in DOMAIN rs :
          rs[o].index = 0 /\ procs[rs[o].task].pc = "r_sleep"
\* the rotation task p returns from its interval sleep
Wakes(p) ==
    /\ p \in PIds /\ IsTask(p) /\ Runnable(p)
    /\ procs[p].pc = "r_sleep" /\ procs[p].remaining = 0
    /\ procs'[p] # procs[p]

\* C19: the round-robin index that selects a feed is within the feed list as
\* it is at that moment, whatever add-feed and remove-feed did meanwhile; with
\* an empty feed list the step does nothing and the task keeps running: a
\* waking task either finds the list empty, changes nothing and sleeps for
\* the interval again, or sets an index inside the list and goes on with the
\* feed at that index.
C19_IndexWithinFeedList ==
    [][\A p \in PIds :
         Wakes(p) =>
           LET o == procs[p].owner
           IN IF source_channels = <<>>
              THEN /\ procs'[p].pc = "r_sleep" /\ ~procs'[p].cancelReq
                   /\ procs'[p].remaining = rs[o].interval
                   /\ UNCHANGED <<rs, storeVars, tgVars, auxVars>>
              ELSE /\ rs'[o].index + 1 \in DOMAIN source_channels
                   /\ procs'[p].pc = "r_last"
                   /\ procs'[p].channel = source_channels[rs'[o].index + 1]]_vars

\* the task has selected a feed from a list that two feeds were removed from:
\* the third feed of the initial list is the one left and it was found at index 0
C19_Witness ==
    \E o \in DOMAIN rs :
        /\ Len(source_channels) = 1 /\ rs[o].index = 0
        /\ procs[rs[o].task].pc = "r_last"
        /\ procs[rs[o].task].channel = Feeds[3]

\* the task sleeps again after it woke to an empty feed list
C19_WitnessEmpty ==
    \E o \in DOMAIN rs :
        /\ source_channels = <<>> /\ rs[o].index >= 0
        /\ procs[rs[o].task].pc = "r_sleep"
        /\ procs[rs[o].task].remaining = rs[o].interval
        /\ \A h \in 1..NumSlots : Free(h)
\* the rotation task p, which has not slept yet, delivers a message to a chat
EntryDelivery(p) ==
    /\ p \in PIds /\ IsTask(p) /\ Runnable(p)
    /\ procs[p].pc = "fp_forward" /\ procs[p].caller = "latest"
    /\ \E d \in Chats : chatNext'[d] # chatNext[d]

\* C20: when the rotation task starts it performs, before its first interval
\* sleep, one rotation step that publishes only the current-turn feed: what
\* the task delivers before it has slept comes from the first feed of the list.
C20_EntryPublishesCurrentFeed ==
    [][\A p \in PIds :
         EntryDelivery(p) => procs[p].channel = source_channels[1]]_vars

\* awaits of find_latest_message inside _channel_rotation: a missing last
\* message is answered by logger.warning and continue, which await nothing
RotLocatePcs == {}

\* the step of the rotation task p that has read no last message for the
\* feed it selected
MissingItemStep(p) ==
    /\ p \in PIds /\ IsTask(p) /\ Runnable(p) /\ procs[p].pc = "r_last"
    /\ get_last_message(procs[p].channel) = None
    /\ procs'[p] # procs[p] /\ faults' = faults

\* C21: a rotation step for a feed that has no LastSeenItem invokes the Item
\* Locator: the step that reads no last message goes on to a
\* find_latest_message call for that feed.
C21_MissingItemInvokesLocator ==
    [][\A p \in PIds : MissingItemStep(p) => procs'[p].pc \in RotLocatePcs]_vars

\* SELECT message_id FROM last_messages WHERE channel_id = ?, on the table lm
LastSeen(lm, feed) == IF feed \in DOMAIN lm THEN lm[feed] ELSE None

\* the step in which the channel-post handler p returns from save_last_message
SavedStep(p) ==
    /\ p \in PIds /\ Runnable(p) /\ procs[p].pc = "po_save"
    /\ procs'[p] # procs[p] /\ faults' = faults

\* C22: every item observed on a configured feed sets that feed's
\* LastSeenItem, Idle or Running alike, and start() and stop() never change a
\* LastSeenItem: when the handler of a post has saved it, the last message
\* read for the source_channels entry of that channel is the post's id, and a
\* step that changes the state leaves last_messages alone.
C22_ObservedItemIsLastSeen ==
    [][/\ \A p \in PIds :
            SavedStep(p) =>
              \A k \in DOMAIN source_channels :
                 chat_of(source_channels[k]) = procs[p].channel
                   => LastSeen(last_messages', source_channels[k]) = procs[p].message_id
       /\ state' # state => last_messages' = last_messages]_vars

\* C23: while the engine is Idle a feed update only records LastSeenItem: the
\* handler that returns from the save of the post while the state is Idle ends
\* there, with the post recorded unless the save failed, with no delivery, pin
\* or unpin and no change to pinned_messages or forward_stats.
C23_IdleUpdateOnlyRecords ==
    [][\A p \in PIds :
         (/\ p \in PIds /\ Runnable(p) /\ procs[p].pc = "po_save"
          /\ procs'[p] # procs[p] /\ state = Idle)
           => /\ procs'[p] = NoProc
              /\ SavedStep(p)
                   => last_messages'[procs[p].channel] = procs[p].message_id
              /\ UNCHANGED <<chatNext, chatPinned, unpinCalls, pinned_messages,
                             forward_stats, config, target_chats, source_channels,
                             auxVars>>]_vars

\* a post of channel 10 has been recorded on an engine that was never started;
\* its handler is over and nothing was delivered
C23_Witness ==
    /\ state = Idle /\ rs = <<>> /\ target_chats = Chats
    /\ last_messages["10"] = 1
    /\ \A h \in HandlerSlots : Free(h)
    /\ \A d \in Chats : chatNext[d] = 1 /\ chatPinned[d] = {}
    /\ forward_stats = <<>> /\ pinned_messages = {}

\* the feed whose turn it is in RunningState r: the one the last rotation step
\* selected, none before the first step
InTurn(r) ==
    IF rs[r].index >= 0 /\ rs[r].index < Len(source_channels)
    THEN {source_channels[rs[r].index + 1]}
    ELSE {}

\* C24: while the engine is Running a feed update triggers an immediate
\* publishAndReplace only when the feed is the in-turn feed: the handler that
\* has saved a post of any other feed ends there.
C24_OnlyInTurnFeedPublishes ==
    [][\A p \in PIds :
         (SavedStep(p) /\ IsRunning(state) /\ procs[p].channel \notin InTurn(state))
           => procs'[p] = NoProc]_vars

\* no toggle_forwarding and no set-interval invocation is in flight
Settled == \A h \in 1..NumSlots : procs[h].kind \notin {"start", "setint"}

\* C25: start() on an Idle engine creates the Running state with the stored
\* rotation_interval (7200 when none is stored), also when a set-interval
\* operation interleaves with it: once both have finished, the interval of the
\* Running state the engine holds equals the stored value.
C25_IntervalIsStoredValue ==
    (IsRunning(state) /\ Settled) => rs[state].interval = get_config_interval

\* C26: after any sequence of set-interval operations the stored
\* rotation_interval and the interval of every Running state lie within
\* [300, 86400] seconds.
C26_IntervalWithinBounds ==
    /\ get_config_interval \in 300..86400
    /\ \A r \in DOMAIN rs : rs[r].interval \in 300..86400

\* the longest interval that is accepted has been stored and the Running
\* engine uses it, with no operation in flight
C26_Witness ==
    /\ IsRunning(state) /\ Settled
    /\ config = 86400 /\ rs[state].interval = 86400

\* everything of the engine but the coroutines: the state, the Running states
\* with their task and interval, the Store and the transport
EngineVars == <<state, rs, storeVars, tgVars, faults>>

\* the step of process p that runs start() on a Running engine or stop() on an
\* Idle one
NoopCall(p) ==
    /\ Runnable(p) /\ procs'[p] # procs[p]
    /\ \/ procs[p].pc = "cx_start" /\ IsRunning(state)
       \/ procs[p].pc = "cx_stop" /\ state = Idle

C27_WitnessStop ==
    /\ state = Idle /\ config # None
    /\ \E p \in StartSlots : procs[p].kind = "stop" /\ procs[p].pc = "cx_ret"

\* the step in which a removal of a chat returns: remove_chat after its
\* list_chats, handle_chat_member after its remove_target_chat
RemovalReturns(p) ==
    /\ Runnable(p) /\ procs[p].pc \in {"rc_list", "cm_remove"}
    /\ procs'[p] = NoProc /\ faults' = faults

\* C28: when a removal of chat d has completed, by the admin command or by the
\* membership event, d is not in target_chats and has no pinned_messages row,
\* whether or not its message could be unpinned.
C28_RemovedChatLeavesNoRecord ==
    [][\A p \in PIds :
         RemovalReturns(p)
           => /\ procs[p].arg \notin target_chats'
              /\ ~\E row \in pinned_messages' : row[1] = Str(procs[p].arg)]_vars

\* a step of publish p to its current chat in which no call fails
CleanStep(p) == Runnable(p) /\ procs'[p] # procs[p] /\ faults' = faults

\* C29: when the delivery to a chat succeeded and the unpin of the previous
\* message fails, the publish goes on: the forwarded message is pinned by the
\* pin call that follows and recorded in pinned_messages by the save that
\* follows it.
C29_FailedUnpinDoesNotBlock ==
    [][\A p \in PIds :
         LET q == procs[p]
             d == q.chats[q.ci]
         IN /\ (q.pc = "fp_unpin" /\ Runnable(p) /\ procs'[p] # q
                                      /\ faults' # faults)
                 => /\ procs'[p].pc = "fp_pin" /\ procs'[p].fwd = q.fwd
                    /\ procs'[p].ci = q.ci /\ q.fwd # None
            /\ (q.pc = "fp_pin" /\ q.unpinFailed /\ CleanStep(p))
                 => q.fwd \in chatPinned'[d] /\ procs'[p].pc = "fp_save"
            /\ (q.pc = "fp_save" /\ q.unpinFailed /\ CleanStep(p))
                 => <<Str(d), q.fwd>> \in pinned_messages']_vars

\* a publish whose unpin of message 1 failed in chat 1 has pinned and recorded
\* message 2 there; message 1 is still pinned
C29_Witness ==
    \E p \in PIds :
        /\ procs[p].pc = "fp_log" /\ procs[p].unpinFailed
        /\ procs[p].chats[procs[p].ci] = 1 /\ procs[p].fwd = 2
        /\ chatPinned[1] = {1, 2}
        /\ <<"1", 2>> \in pinned_messages

\* a chat that the call of coroutine p has still ahead is the source channel
SkipsAhead(p) ==
    \E i \in (procs[p].ci + 1)..Len(procs[p].chats) :
        is_source(procs[p].chats[i], procs[p].channel)

\* C30: forward_and_pin_message never delivers to a chat whose id is the id of
\* the source channel, and the chats it skips for that reason do not turn its
\* result to false: a call that logs a delivery and has only such chats left
\* returns with success True.
C30_NoSelfRelay ==
    [][\A p \in PIds :
         (Runnable(p) /\ procs'[p] # procs[p])
           => /\ \A d \in Chats :
                    chatNext'[d] # chatNext[d] => Str(d) # procs[p].channel
              /\ (/\ procs[p].pc = "fp_log" /\ forward_stats' # forward_stats
                  /\ SkipsAhead(p) /\ CallReturns(p))
                   => procs'[p].pc = "fl_last" /\ procs'[p].success]_vars

\* the publish of channel 2 has delivered to chat 1 alone and returned True to
\* forward_latest_messages, which is at the next channel
C30_Witness ==
    \E p \in PIds :
        /\ procs[p].pc = "fl_last" /\ procs[p].channel = "1" /\ procs[p].success
        /\ chatNext[1] = 2 /\ chatNext[2] = 1
        /\ forward_stats = <<1>>

\* the step in which coroutine p gets the answer of get_chat for its chat
GetChatStep(p) ==
    /\ Runnable(p) /\ procs[p].pc = "fp_getchat"
    /\ procs'[p] # procs[p] /\ faults' = faults

\* C31: a chat of type channel is skipped by forward_and_pin_message: nothing
\* is ever forwarded to it or pinned in it and it gets no pinned_messages row;
\* the step that learns the type goes on to the next chat without any call or
\* write, and leaves the result of the call as the other chats made it.
C31_ChannelChatSkipped ==
    [][/\ \A d \in DOMAIN chatNext :
            ChatType(d) = "channel"
              => /\ chatNext'[d] = chatNext[d] /\ chatPinned'[d] = chatPinned[d]
                 /\ \A row \in pinned_messages' : row[1] # Str(d)
       /\ \A p \in PIds :
            (GetChatStep(p) /\ ChatType(procs[p].chats[procs[p].ci]) = "channel")
              => /\ LeavesDestination(p)
                 /\ procs'[p].pc \in {"fp_getchat", "fl_last"}
                      => procs'[p].success = procs[p].success
                 /\ UNCHANGED <<storeVars, tgVars, auxVars>>]_vars

\* the publish of channel 10 has delivered to chat 1, skipped the channel
\* chat 3 and returned True to forward_latest_messages
C31_Witness ==
    \E p \in PIds :
        /\ procs[p].pc = "fl_last" /\ procs[p].chIdx = 2 /\ procs[p].success
        /\ target_chats = {1, ChannelChat}
        /\ chatNext[1] = 2 /\ chatNext[3] = 1
        /\ forward_stats = <<1>>

\* the ids the forward loop probes, the ids the backward loop may probe
ForwardWindow(last) == start_id(last)..(start_id(last) + MaxCheck - 1)
BackWindow(last) == (back_stop(start_id(last)) + 1)..start_id(last)

\* the posts of channel ch among the ids S
Found(ch, S) == {id \in S : Probes(ch, id)}

\* find_latest_message has returned to the caller of coroutine p
Located(p) == procs[p].kind = "locate" /\ procs[p].pc = "lc_ret"

\* C32: find_latest_message returns only an id whose probe succeeded: the
\* highest resolving id of the forward window when there is one, otherwise the
\* resolving id of the backward window that is closest to the starting point,
\* and None exactly when no probed id resolves (no probe failing for another
\* reason).
C32_LocateResult ==
    \A p \in PIds :
        Located(p)
          => LET ch == procs[p].channel
                 ahead == Found(ch, ForwardWindow(procs[p].arg))
                 back == Found(ch, BackWindow(procs[p].arg))
                 r == procs[p].old
             IN /\ r # None => r \in ahead \cup back
                /\ faults = 0
                     => /\ ahead # {} => r = Highest(ahead)
                        /\ (ahead = {} /\ back # {}) => r = Highest(back)
                        /\ r = None <=> ahead \cup back = {}

\* with the hint 200 and posts 100 and 200 behind the starting point 250, none
\* ahead, the search has returned 200
C32_Witness ==
    \E p \in PIds :
        /\ Located(p) /\ procs[p].arg = 200 /\ procs[p].old = 200
        /\ faults = 0 /\ chanLast["10"] = 200
        /\ Probes("10", 100)

\* the search forward took the newest of two posts: hint 1, posts 200 and 250
C32_WitnessForward ==
    \E p \in PIds :
        /\ Located(p) /\ procs[p].arg = 1 /\ procs[p].old = 250
        /\ faults = 0 /\ Probes("10", 200)

\* the ids from which the claim lets the search start and which it has probed
\* when it gives up: the hint, and the bound below it
HintStart(last) == IF last # None THEN last ELSE SearchFrom
BelowHint(last) ==
    {id \in (HintStart(last) - MaxCheck)..HintStart(last) : id >= 1}

\* C33: the search starts at the hint itself (at the default start point
\* without a hint), and when it returns None every id within the bound below
\* that point has been probed: none of them resolves.
C33_SearchesFromHint ==
    [][\A p \in PIds :
         /\ (procs[p].kind = "none" /\ procs'[p].kind = "locate")
              => procs'[p].message_id = HintStart(procs'[p].arg)
         /\ (procs[p].pc = "lc_back" /\ procs'[p].pc = "lc_ret"
                                    /\ procs'[p].old = None /\ faults' = 0)
              => Found(procs[p].channel, BelowHint(procs[p].arg)) = {}]_vars

\* C34: find_latest_message ends after at most 2 x max_check probes, at most
\* max_check in each loop, whatever the probes answer: every step of the
\* search is one more probe or the return, the count never exceeds the bound,
\* and no id below 1 is probed.
C34_BoundedProbes ==
    [][\A p \in PIds :
         procs'[p].kind = "locate"
           => /\ procs'[p].fwd <= 2 * MaxCheck
              /\ procs'[p].pc = "lc_fwd"
                   => procs'[p].fwd < MaxCheck /\ procs'[p].message_id >= 1
              /\ procs'[p].pc = "lc_back"
                   => /\ procs'[p].fwd >= MaxCheck /\ procs'[p].fwd < 2 * MaxCheck
                      /\ procs'[p].message_id >= 1
              /\ (procs[p].kind = "locate" /\ procs[p].pc # "lc_ret")
                   => procs'[p].fwd = procs[p].fwd + 1]_vars

\* the longest search: both loops ran to their end and nothing was found
C34_Witness ==
    \E p \in PIds :
        /\ Located(p) /\ procs[p].old = None
        /\ procs[p].fwd = 2 * MaxCheck

\* the get_connection calls that hold a connection
Holders == {c \in DOMAIN callers : callers[c].pc = "hold"}

\* C39: the pool never hands one connection to two holders: the connections
\* of two holders differ, and a connection is marked in use as long as its
\* holder is inside the context.
C39_OneHolderPerConnection ==
    /\ \A c \in Holders : callers[c].conn \in DOMAIN pool /\ pool[callers[c].conn]
    /\ \A c, d \in Holders : c # d => callers[c].conn # callers[d].conn

\* every connection of a full pool is held, by a caller of its own, while
\* another caller waits
C39_Witness ==
    /\ Len(pool) = MaxConnections /\ FreeConns = {}
    /\ Cardinality(Holders) = MaxConnections
    /\ \E c \in DOMAIN callers : callers[c].pc = "wait"

\* C40: the pool never holds more than 5 connections.
C40_PoolWithinLimit == Len(pool) <= MaxConnections

\* the schedule task forwards its slot's message to chat d in this step
Publishes(p, d) ==
    /\ IsSched(p) /\ procs[p].pc = "sp_forward"
    /\ procs'[p] # procs[p]
    /\ chatNext'[d] = chatNext[d] + 1

InClock(current, start, end) ==
    (current - start) % (24 * 60) < (end - start) % (24 * 60)

\* C36: _is_time_in_range(current, start, end) is true exactly when current
\* lies in the half-open interval [start, end) on the 24-hour clock, passing
\* midnight when end is earlier than start, and false for every current time
\* when start equals end; checked for the clock's time against every schedule
C36_TimeInRange ==
    \A i \in DOMAIN schedules :
        LET row == schedules[i]
        IN /\ is_time_in_range(strftime(clock.minute), row.start_time, row.end_time)
                <=> InClock(clock.minute, time_to_minutes(row.start_time),
                            time_to_minutes(row.end_time))
           /\ row.start_time = row.end_time
                => ~is_time_in_range(strftime(clock.minute), row.start_time,
                                     row.end_time)

\* the schedule task has found the slot from 22:00 to 06:00 active just after
\* midnight, and no slot where the one from 06:00 to 06:00 is the only schedule
C36_Witness ==
    \E p \in PIds :
        /\ IsSched(p) /\ procs[p].pc = "sc_last"
        /\ procs[p].slot = <<Channels[1], <<22, 0>>, <<6, 0>>>>
        /\ clock = [day |-> 2, minute |-> 1]
        /\ Len(schedules) = 2
        /\ schedules[2].start_time = schedules[2].end_time

\* neither an ingestion handler nor the locator's recovery is under way
Quiet ==
    /\ \A h \in HandlerSlots : Free(h)
    /\ \A p \in PIds :
         IsSched(p) => procs[p].pc \notin {"lc_fwd", "lc_back", "lc_ret",
                                           "sp_savelast"}

AtRest == \A p \in PIds : procs[p].pc \in {"done", "r_start", "r_sleep", "r_backoff"}

\* C38: once all operations in flight have finished, every pinned_messages row
\* belongs to a chat of target_chats, for any interleaving of the publish with
\* remove_chat, membership events and the pin test
C38_RecordsOfRegisteredChats ==
    AtRest => \A row \in pinned_messages :
                  \E d \in target_chats : row[1] = Str(d)
====
